---- MODULE Spec2Model ----
(***************************************************************************)
(* Entity resolution, knowledge-store client, context builder and grounded *)
(* generator of the KG-enhanced question answering system.                 *)
(*                                                                         *)
(* Python str values are sequences with one element per character.  The   *)
(* module is written in ASCII: an upper-case letter stands for a CJK       *)
(* ideograph, and the resolver part writes an ideograph as its reading.    *)
(* Python None is the one-element sequence <<"None">>, which no str value  *)
(* of the model equals.                                                    *)
(***************************************************************************)
EXTENDS Integers, Sequences, FiniteSets, TLC

VARIABLES
    query_cache,   \* KnowledgeGraphQuery.query_cache: cache key -> (result, timestamp)
    now,           \* the wall clock read by time.time()
    ticks,         \* number of clock advances so far
    call,          \* the store-client call in progress, or the one that returned last
    calls,         \* number of store-client calls started
    storeQueries,  \* number of graph.run() invocations issued so far
    lastQuery,     \* history: per cache key, the latest call that got data from the store
    builder,       \* KGContextBuilder: relation_limit and trunc_len
    gen,           \* the generator request in progress: its locals and position
    backend,       \* the worker thread running llm.generate_response
    clock,         \* the wall clock of the generator, in seconds
    genTicks,      \* number of advances of that clock
    recognizer,    \* IntentRecognizer: knowledge base, embedder and kg_query
    post,          \* the _postprocess_entities call in progress: its locals and position
    api,           \* APIHandler: its llm_client and the process_query call in progress
    workers,       \* threads inside _execute_query_with_cache: locals and position
    cache_lock     \* KnowledgeGraphQuery.cache_lock: the thread that holds it

kgVars == <<query_cache, now, ticks, call, calls, storeQueries, lastQuery>>

genVars == <<builder, gen, backend, clock, genTicks>>

resVars == <<recognizer, post>>

apiVars == <<api>>

lockVars == <<workers, cache_lock>>

vars == <<kgVars, genVars, resVars, apiVars, lockVars>>

-----------------------------------------------------------------------------
(* Bounds of the model *)

MaxTicks == 3
MaxCalls == 3
MaxGenTicks == 2
MaxRelationLimit == 2
SmallTruncLen == 2
MaxCandidates == 2

\* the relations of the largest store answer given to the API handler
ManyRows == 11

-----------------------------------------------------------------------------
(* Python values and str helpers *)

None == <<"None">>

IsStr(v) == v # None

WordChars == {"a", "b", "7", "_"}         \* ASCII members of the regex class \w
CJKChars == {"Z", "B", "H", "S", "Y", "L", "X", "D", "G", "C", "K", "W", "T", "U", "I", "N", "Q"}  \* u4e00-u9fff
SpaceChars == {" ", "\n"}                  \* \s, and what str.strip() removes
HyphenChars == {"-"}
ControlChars == {"'", ";", ")"}            \* query-language control characters

SetMin(S) == CHOOSE x \in S : \A y \in S : x <= y
SetMax(S) == CHOOSE x \in S : \A y \in S : x >= y
\* the elements of a list
Range(s) == {s[i] : i \in 1..Len(s)}

Min(a, b) == IF a <= b THEN a ELSE b

\* s[:n]
Take(s, n) == SubSeq(s, 1, Min(n, Len(s)))

\* c * n
Rep(c, n) == [i \in 1..n |-> c]

\* str.strip()
Strip(s) ==
    LET idx == {i \in 1..Len(s) : s[i] \notin SpaceChars}
    IN  IF idx = {} THEN <<>> ELSE SubSeq(s, SetMin(idx), SetMax(idx))

RECURSIVE Concat(_)
Concat(ss) == IF ss = <<>> THEN <<>> ELSE Head(ss) \o Concat(Tail(ss))

\* sep.join(parts)
RECURSIVE Join(_, _)
Join(sep, parts) ==
    IF parts = <<>> THEN <<>>
    ELSE IF Len(parts) = 1 THEN parts[1]
    ELSE parts[1] \o sep \o Join(sep, Tail(parts))

Digit(d) == CASE d = 0 -> "0" [] d = 1 -> "1" [] d = 2 -> "2" [] d = 3 -> "3"
              [] d = 4 -> "4" [] d = 5 -> "5" [] d = 6 -> "6" [] d = 7 -> "7"
              [] d = 8 -> "8" [] d = 9 -> "9"

\* str(n) for an int n >= 0
RECURSIVE StrInt(_)
StrInt(n) == IF n < 10 THEN <<Digit(n)>> ELSE StrInt(n \div 10) \o <<Digit(n % 10)>>

\* str(b) for a bool
StrBool(b) == IF b THEN <<"T", "r", "u", "e">> ELSE <<"F", "a", "l", "s", "e">>

\* str(t) for a tuple of str: "('x', 'y')", and "('x',)" for one element
StrTuple(t) ==
    LET reprs == [i \in 1..Len(t) |-> <<"'">> \o t[i] \o <<"'">>]
    IN  <<"(">> \o Join(<<",", " ">>, reprs)
            \o (IF Len(t) = 1 THEN <<",">> ELSE <<>>) \o <<")">>

-----------------------------------------------------------------------------
(* KnowledgeGraphQuery: constants *)

MAX_ENTITY_LENGTH == 100
MAX_ENTITIES_PER_QUERY == 50
QUERY_RESULT_LIMIT == 1000
cache_ttl == 600

\* str(DEFAULT_CONFIDENCE_THRESHOLD)
DEFAULT_CONFIDENCE_THRESHOLD == <<"0", ".", "8">>

-----------------------------------------------------------------------------
(* KnowledgeGraphQuery: input sanitization *)

\* the characters re.sub(r'[^\w<u4e00>-<u9fff>\s\-_]', '', ...) keeps
AllowedChar(c) == c \in WordChars \cup CJKChars \cup SpaceChars \cup HyphenChars

sanitize_entity_name_keeps_quote(entity_name) ==
    IF entity_name = <<>> \/ entity_name = None THEN <<>>
    ELSE LET sanitized == SelectSeq(entity_name, LAMBDA c : AllowedChar(c) \/ c = "'")
         IN  Strip(IF Len(sanitized) > MAX_ENTITY_LENGTH
                   THEN Take(sanitized, MAX_ENTITY_LENGTH) ELSE sanitized)

sanitize_entity_name(entity_name) ==
    IF entity_name = <<>> \/ entity_name = None THEN <<>>
    ELSE LET sanitized == SelectSeq(entity_name, AllowedChar)
             limited == IF Len(sanitized) > MAX_ENTITY_LENGTH
                        THEN Take(sanitized, MAX_ENTITY_LENGTH)
                        ELSE sanitized
         IN  Strip(limited)

validate_entities(entities) ==
    IF entities = <<>> THEN <<>>
    ELSE LET firstN == Take(entities, MAX_ENTITIES_PER_QUERY)
             sanitized == [i \in 1..Len(firstN) |-> sanitize_entity_name(firstN[i])]
         IN  SelectSeq(sanitized, LAMBDA s : s # <<>>)

\* f"{query_type}:{'|'.join(str(arg) for arg in args)}"; args are already str()
get_cache_key(query_type, args) == <<query_type, ":">> \o Join(<<"|">>, args)

-----------------------------------------------------------------------------
(* KnowledgeGraphQuery: the TTL cache.  A lookup returns the pair of the   *)
(* value handed to the caller (is_none on a miss) and the cache it leaves. *)

Without(cache, key) == [k \in DOMAIN cache \ {key} |-> cache[k]]

Miss(cache) == [is_none |-> TRUE, value |-> <<>>, cache |-> cache]

get_cached_result_inclusive(cache, cache_key, t) ==
    IF cache_key \in DOMAIN cache
    THEN IF t - cache[cache_key].timestamp <= cache_ttl
         THEN [is_none |-> FALSE, value |-> cache[cache_key].result, cache |-> cache]
         ELSE Miss(Without(cache, cache_key))
    ELSE Miss(cache)

\* a lookup that takes a cached empty result for no result
get_cached_result_empty_is_miss(cache, cache_key, t) ==
    IF cache_key \in DOMAIN cache
    THEN IF t - cache[cache_key].timestamp < cache_ttl /\ cache[cache_key].result # <<>>
         THEN [is_none |-> FALSE, value |-> cache[cache_key].result, cache |-> cache]
         ELSE Miss(Without(cache, cache_key))
    ELSE Miss(cache)

get_cached_result_always_miss(cache, cache_key, t) == Miss(Without(cache, cache_key))

get_cached_result(cache, cache_key, t) ==
    IF cache_key \in DOMAIN cache
    THEN IF t - cache[cache_key].timestamp < cache_ttl
         THEN [is_none |-> FALSE, value |-> cache[cache_key].result, cache |-> cache]
         ELSE Miss(Without(cache, cache_key))
    ELSE Miss(cache)

\* the insert of _cache_result, before its sweep
cache_insert(cache, cache_key, result, t) ==
    [k \in DOMAIN cache \cup {cache_key} |->
        IF k = cache_key THEN [result |-> result, timestamp |-> t] ELSE cache[k]]

cache_result(cache, cache_key, result, t) ==
    LET inserted == cache_insert(cache, cache_key, result, t)
        expired_keys == {k \in DOMAIN inserted : t - inserted[k].timestamp >= cache_ttl}
    IN  [k \in DOMAIN inserted \ expired_keys |-> inserted[k]]

-----------------------------------------------------------------------------
(* KnowledgeGraphQuery: records of the store and their formatting.  A row  *)
(* is one record of graph.run(query).data(); entity1_cols[f] is its column *)
(* "entity1_" + f.  A dict is the sequence of its (key, value) items in    *)
(* insertion order.                                                        *)

AttributeFields ==
    <<"type", "description", "properties",
      "time_complexity", "space_complexity", "common_operations">>

FieldSet == {AttributeFields[i] : i \in 1..Len(AttributeFields)}

\* Python truthiness of a str-or-None value
Truthy(v) == v # None /\ v # <<>>

format_entity_attributes(record, entity_prefix) ==
    LET cols == IF entity_prefix = "entity1" THEN record.entity1_cols
                ELSE record.entity2_cols
        present == SelectSeq(AttributeFields, LAMBDA f : Truthy(cols[f]))
    IN  [i \in 1..Len(present) |-> <<present[i], cols[present[i]]>>]

\* the formatting loop shared by the three query operations
format_result(result) ==
    LET kept == SelectSeq(result, LAMBDA r : Truthy(r.entity1) /\ Truthy(r.entity2))
    IN  [i \in 1..Len(kept) |->
            [entity1 |-> kept[i].entity1,
             entity1_attributes |-> format_entity_attributes(kept[i], "entity1"),
             entity2 |-> kept[i].entity2,
             entity2_attributes |-> format_entity_attributes(kept[i], "entity2"),
             relation |-> kept[i].relation]]

-----------------------------------------------------------------------------
(* KnowledgeGraphQuery: the guards of the three query operations *)

find_entity_relations_rejects(sanitized_entity) == sanitized_entity = <<>>

find_entities_by_relation_rejects_raw_only(validated_entities, relation, sanitized_relation) ==
    validated_entities = <<>> \/ relation = <<>>

find_entities_by_relation_rejects(validated_entities, relation, sanitized_relation) ==
    \/ validated_entities = <<>> \/ relation = <<>>
    \/ sanitized_relation = <<>>

find_relation_by_entities_rejects(validated_entities) == Len(validated_entities) < 2

-----------------------------------------------------------------------------
(* Inputs of the store-client model *)

LongName == Rep("a", MAX_ENTITY_LENGTH) \o <<"'", "b">>
BlankName == Rep(" ", MAX_ENTITY_LENGTH) \o <<"Z">>
DirtyName == <<" ", "Z", "'", ";">>
QuoteName == <<"'", ";">>

RawNames == {<<>>, DirtyName, BlankName}

Limits == {2, 1001}

EntityLists ==
    {<<>>, <<QuoteName, DirtyName>>, <<LongName, QuoteName, DirtyName>>,
     Rep(QuoteName, MAX_ENTITIES_PER_QUERY) \o <<(<<"Z">>), DirtyName>>}

RawRelations == {<<>>, <<"'">>, <<"b", ";">>}

NoCols == [f \in FieldSet |-> None]

RowA == [entity1 |-> <<"Z">>, relation |-> <<"r">>, entity2 |-> <<"a">>,
         entity1_cols |-> [NoCols EXCEPT !["type"] = <<"t">>, !["description"] = <<>>],
         entity2_cols |-> NoCols]

RowB == [entity1 |-> <<"Z">>, relation |-> <<"r">>, entity2 |-> None,
         entity1_cols |-> NoCols, entity2_cols |-> NoCols]

RowC == [entity1 |-> <<"a">>, relation |-> <<"s">>, entity2 |-> <<"Z">>,
         entity1_cols |-> NoCols,
         entity2_cols |-> [NoCols EXCEPT !["description"] = <<"d", "d">>]]

\* the records of the store that match a query, in the order of the store
StoreAnswers == {<<>>, <<RowC, RowA>>, <<RowA, RowB>>}

RowD == [entity1 |-> <<"a">>, relation |-> <<"s">>, entity2 |-> <<"b">>,
         entity1_cols |-> NoCols, entity2_cols |-> NoCols]

\* more matching records than a query asks for
StoreMatches ==
    StoreAnswers \cup {<<RowD, RowA, RowC>>, Rep(RowD, QUERY_RESULT_LIMIT + 1)}

-----------------------------------------------------------------------------
(* The store-client call record *)

NoQuery == [any |-> FALSE, ok |-> FALSE, at |-> 0, result |-> <<>>]

Prior(key) == IF key \in DOMAIN lastQuery THEN lastQuery[key] ELSE NoQuery

NoQueryText == [entities |-> <<>>, relation |-> <<>>, limit |-> 0, bidirectional |-> FALSE]

NewCall(op, entities, relation, limit, bidirectional) ==
    [pc |-> "idle", op |-> op,
     entities |-> entities, relation |-> relation,
     limit |-> limit, bidirectional |-> bidirectional,
     validated |-> <<>>, sanitized_relation |-> <<>>,
     cache_key |-> <<>>, key_strings |-> <<>>, query |-> NoQueryText,
     lookupAt |-> 0, found |-> FALSE, foundAt |-> 0, hit |-> FALSE,
     storeRuns |-> 0, storeRaised |-> FALSE, storeOk |-> FALSE, rows |-> <<>>,
     cacheOutcome |-> "none",
     result |-> <<>>, prior |-> NoQuery]

NoCall == NewCall("none", <<>>, <<>>, 0, FALSE)

-----------------------------------------------------------------------------
(* KnowledgeGraphQuery: the three query operations, step by step.  The     *)
(* entry step validates the input and builds the cache key and the query;  *)
(* Lookup, RunQuery and CacheResult are _execute_query_with_cache; the     *)
(* step that ends the call formats the rows and returns.                   *)

\* except Exception: logging.error(...); return []
execute_query_except == [pc |-> "returned", rows |-> <<>>]

KGInit ==
    /\ query_cache = <<>>
    /\ now = 0
    /\ ticks = 0
    /\ call = NoCall
    /\ calls = 0
    /\ storeQueries = 0
    /\ lastQuery = <<>>

CanCall == call.pc \in {"idle", "returned"} /\ calls < MaxCalls

\* the cache key, the query and the history the call starts from
Prepared(base, validated, sanitized_relation, key, key_strings, query) ==
    [base EXCEPT !.pc = "lookup", !.validated = validated,
                 !.sanitized_relation = sanitized_relation,
                 !.cache_key = key, !.key_strings = key_strings,
                 !.query = query, !.prior = Prior(key)]

Rejected(base, validated, sanitized_relation) ==
    [base EXCEPT !.pc = "returned", !.validated = validated,
                 !.sanitized_relation = sanitized_relation]

query_limit_ignored(limit) == QUERY_RESULT_LIMIT

\* LIMIT {min(limit, self.QUERY_RESULT_LIMIT)}
query_limit(limit) == Min(limit, QUERY_RESULT_LIMIT)

find_entity_relations(entity_name, limit) ==
    /\ CanCall
    /\ UNCHANGED <<genVars, resVars, apiVars, lockVars>>
    /\ LET base == NewCall("find_entity_relations", <<entity_name>>, <<>>, limit, FALSE)
           sanitized_entity == sanitize_entity_name(entity_name)
       IN  IF find_entity_relations_rejects(sanitized_entity)
           THEN call' = Rejected(base, <<sanitized_entity>>, <<>>)
           ELSE call' = Prepared(base, <<sanitized_entity>>, <<>>,
                    get_cache_key("find_entity_relations",
                                  <<sanitized_entity, StrInt(limit)>>),
                    <<sanitized_entity>>,
                    [entities |-> <<sanitized_entity>>, relation |-> <<>>,
                     limit |-> query_limit(limit),
                     bidirectional |-> TRUE])
    /\ calls' = calls + 1
    /\ UNCHANGED <<query_cache, now, ticks, storeQueries, lastQuery>>

find_relation_by_entities(entities, bidirectional) ==
    /\ CanCall
    /\ UNCHANGED <<genVars, resVars, apiVars, lockVars>>
    /\ LET base == NewCall("find_relation_by_entities", entities, <<>>, 0, bidirectional)
           validated_entities == validate_entities(entities)
       IN  IF find_relation_by_entities_rejects(validated_entities)
           THEN call' = Rejected(base, validated_entities, <<>>)
           ELSE LET entity1 == validated_entities[1]
                    entity2 == validated_entities[2]
                IN  call' = Prepared(base, validated_entities, <<>>,
                        get_cache_key("find_relation_by_entities",
                                      <<entity1, entity2, DEFAULT_CONFIDENCE_THRESHOLD,
                                        StrBool(bidirectional)>>),
                        <<entity1, entity2>>,
                        [entities |-> <<entity1, entity2>>, relation |-> <<>>,
                         limit |-> QUERY_RESULT_LIMIT,
                         bidirectional |-> bidirectional])
    /\ calls' = calls + 1
    /\ UNCHANGED <<query_cache, now, ticks, storeQueries, lastQuery>>

find_entities_by_relation(entities, relation) ==
    /\ CanCall
    /\ UNCHANGED <<genVars, resVars, apiVars, lockVars>>
    /\ LET base == NewCall("find_entities_by_relation", entities, relation, 0, FALSE)
           validated_entities == validate_entities(entities)
           sanitized_relation == sanitize_entity_name(relation)
       IN  IF find_entities_by_relation_rejects(validated_entities, relation,
                                                sanitized_relation)
           THEN call' = Rejected(base, validated_entities, sanitized_relation)
           ELSE call' = Prepared(base, validated_entities, sanitized_relation,
                    get_cache_key("find_entities_by_relation",
                                  <<StrTuple(validated_entities), sanitized_relation,
                                    DEFAULT_CONFIDENCE_THRESHOLD>>),
                    validated_entities \o <<sanitized_relation>>,
                    [entities |-> validated_entities, relation |-> sanitized_relation,
                     limit |-> QUERY_RESULT_LIMIT, bidirectional |-> FALSE])
    /\ calls' = calls + 1
    /\ UNCHANGED <<query_cache, now, ticks, storeQueries, lastQuery>>

\* _execute_query_with_cache: the cache lookup, and the return of a hit
Lookup ==
    /\ call.pc = "lookup"
    /\ UNCHANGED <<genVars, resVars, apiVars, lockVars>>
    /\ LET key == call.cache_key
           got == get_cached_result(query_cache, key, now)
           seen == [call EXCEPT !.lookupAt = now,
                                !.found = key \in DOMAIN query_cache,
                                !.foundAt = IF key \in DOMAIN query_cache
                                            THEN query_cache[key].timestamp ELSE 0]
       IN  /\ query_cache' = got.cache
           /\ call' = IF got.is_none
                      THEN [seen EXCEPT !.pc = "run"]
                      ELSE [seen EXCEPT !.pc = "returned", !.hit = TRUE,
                                        !.rows = got.value,
                                        !.result = format_result(got.value)]
    /\ UNCHANGED <<now, ticks, calls, storeQueries, lastQuery>>

\* _execute_query_with_cache: graph.run(query).data() returns the first LIMIT
\* of the records that match the query
RunQueryOk(matching) ==
    /\ call.pc = "run"
    /\ UNCHANGED <<genVars, resVars, apiVars, lockVars>>
    /\ storeQueries' = storeQueries + 1
    /\ call' = [call EXCEPT !.pc = "cache", !.storeRuns = @ + 1,
                            !.storeOk = TRUE,
                            !.rows = Take(matching, call.query.limit)]
    /\ UNCHANGED <<query_cache, now, ticks, calls, lastQuery>>

\* _execute_query_with_cache: graph.run raises; the except clause returns []
RunQueryRaises ==
    /\ call.pc = "run"
    /\ UNCHANGED <<genVars, resVars, apiVars, lockVars>>
    /\ storeQueries' = storeQueries + 1
    /\ call' = [call EXCEPT !.pc = execute_query_except.pc, !.storeRuns = @ + 1,
                            !.storeRaised = TRUE,
                            !.result = format_result(execute_query_except.rows)]
    /\ UNCHANGED <<query_cache, now, ticks, calls, lastQuery>>

Remember(key, ok, result) ==
    [k \in DOMAIN lastQuery \cup {key} |->
        IF k = key THEN [any |-> TRUE, ok |-> ok, at |-> now, result |-> result]
        ELSE lastQuery[k]]

\* _execute_query_with_cache: _cache_result stores the rows, which are returned
CacheResultOk ==
    /\ call.pc = "cache"
    /\ UNCHANGED <<genVars, resVars, apiVars, lockVars>>
    /\ query_cache' = cache_result(query_cache, call.cache_key, call.rows, now)
    /\ call' = [call EXCEPT !.pc = "returned", !.cacheOutcome = "ok",
                            !.result = format_result(call.rows)]
    /\ lastQuery' = Remember(call.cache_key, TRUE, format_result(call.rows))
    /\ UNCHANGED <<now, ticks, calls, storeQueries>>

\* _execute_query_with_cache: _cache_result raises inside the try block, either
\* before its insert or after it; the except clause returns []
CacheResultRaises ==
    /\ call.pc = "cache"
    /\ UNCHANGED <<genVars, resVars, apiVars, lockVars>>
    /\ \E inserted \in BOOLEAN :
        /\ query_cache' = IF inserted
                          THEN cache_insert(query_cache, call.cache_key, call.rows, now)
                          ELSE query_cache
        /\ call' = [call EXCEPT !.pc = execute_query_except.pc,
                                !.cacheOutcome = IF inserted THEN "raised_after_insert"
                                                 ELSE "raised_before_insert",
                                !.result = format_result(execute_query_except.rows)]
    /\ lastQuery' = Remember(call.cache_key, FALSE, format_result(<<>>))
    /\ UNCHANGED <<now, ticks, calls, storeQueries>>

\* time passes, between calls or during one
Tick ==
    /\ ticks < MaxTicks
    /\ UNCHANGED <<genVars, resVars, apiVars, lockVars>>
    /\ call.pc \in {"idle", "returned", "run"}
    /\ ticks' = ticks + 1
    /\ now' = now + (cache_ttl \div 2)
    /\ UNCHANGED <<query_cache, call, calls, storeQueries, lastQuery>>

\* the store client under repeated requests for one entity, as time passes
KGNext ==
    \/ \E entity_name \in {DirtyName, QuoteName}, limit \in Limits :
          find_entity_relations(entity_name, limit)
    \/ Lookup
    \/ \E rows \in StoreAnswers : RunQueryOk(rows)
    \/ RunQueryRaises
    \/ CacheResultOk
    \/ CacheResultRaises
    \/ Tick


\* one request of each of the three query operations, over all the inputs
InputNext ==
    \/ \E entity_name \in RawNames, limit \in Limits :
          calls = 0 /\ find_entity_relations(entity_name, limit)
    \/ \E entities \in EntityLists, bidirectional \in BOOLEAN :
          calls = 0 /\ find_relation_by_entities(entities, bidirectional)
    \/ \E entities \in EntityLists, relation \in RawRelations :
          calls = 0 /\ find_entities_by_relation(entities, relation)
    \/ Lookup
    \/ \E matching \in StoreMatches : RunQueryOk(matching)
    \/ RunQueryRaises
    \/ CacheResultOk
    \/ CacheResultRaises
    \/ Tick


-----------------------------------------------------------------------------
(* KGContextBuilder.  A fact is an item of the list handed to build_context:*)
(* a dict (is_dict) with the keys entity1, relation, entity2 and the two    *)
(* attribute dicts, a missing or non-str value being None; or something     *)
(* that is not a dict.                                                      *)

\* the dict as a sequence of (key, value) items: d.get(k)
DictGet(d, k) ==
    IF \E i \in 1..Len(d) : d[i][1] = k
    THEN d[CHOOSE i \in 1..Len(d) : d[i][1] = k][2]
    ELSE None

DictKeys(d) == {d[i][1] : i \in 1..Len(d)}

\* sub in s
Contains(s, sub) ==
    \E i \in 0..(Len(s) - Len(sub)) : SubSeq(s, i + 1, i + Len(sub)) = sub

\* the informative relation keywords, two ideographs each
RelationKeywords ==
    {<<"B", "H">>, <<"S", "U">>, <<"L", "X">>, <<"D", "I">>,
     <<"Q", "G">>, <<"C", "Y">>, <<"K", "Y">>, <<"W", "N">>}

\* _truncate; a falsy or non-str s gives ""
truncate(s, trunc_len) ==
    IF IsStr(s) /\ Len(s) > trunc_len THEN Take(s, trunc_len)
    ELSE IF IsStr(s) THEN s ELSE <<>>

score_relation_symmetric(topic, item) ==
    LET e1 == item.entity1
        e2 == item.entity2
        r == item.relation
    IN  (IF IsStr(e1) /\ e1 = topic THEN 3
         ELSE IF IsStr(e1) /\ Contains(e1, topic) THEN 2 ELSE 0)
      + (IF IsStr(e2) /\ e2 = topic THEN 3
         ELSE IF IsStr(e2) /\ Contains(e2, topic) THEN 2 ELSE 0)
      + (IF IsStr(r) /\ \E k \in RelationKeywords : Contains(r, k) THEN 1 ELSE 0)

score_relation(topic, item) ==
    LET e1 == item.entity1
        e2 == item.entity2
        r == item.relation
    IN  (IF IsStr(e1) /\ e1 = topic THEN 3
         ELSE IF IsStr(e1) /\ Contains(e1, topic) THEN 2 ELSE 0)
      + (IF IsStr(e2) /\ e2 = topic THEN 2
         ELSE IF IsStr(e2) /\ Contains(e2, topic) THEN 1 ELSE 0)
      + (IF IsStr(r) /\ \E k \in RelationKeywords : Contains(r, k) THEN 1 ELSE 0)

\* sorted(items, key=score, reverse=True): descending and stable
ranked_by_score(topic, items) ==
    LET n == Len(items)
        Before(j, i) ==
            \/ score_relation(topic, items[j]) > score_relation(topic, items[i])
            \/ score_relation(topic, items[j]) = score_relation(topic, items[i]) /\ j < i
        rank(i) == Cardinality({j \in 1..n : Before(j, i)}) + 1
    IN  [r \in 1..n |-> items[CHOOSE i \in 1..n : rank(i) = r]]

Triple(r) == [entity1 |-> r.entity1, relation |-> r.relation, entity2 |-> r.entity2]

pick_relations_unbounded(ranked, relation_limit) ==
    LET ok == SelectSeq(ranked, LAMBDA r :
                  IsStr(r.entity1) /\ IsStr(r.entity2) /\ IsStr(r.relation))
    IN  [i \in 1..Len(ok) |-> Triple(ok[i])]

\* the selection loop of build_context: stop at relation_limit picked items
pick_relations(ranked, relation_limit) ==
    LET ok == SelectSeq(ranked, LAMBDA r :
                  IsStr(r.entity1) /\ IsStr(r.entity2) /\ IsStr(r.relation))
        picked == Take(ok, relation_limit)
    IN  [i \in 1..Len(picked) |-> Triple(picked[i])]

merge_fields == AttributeFields

\* the two nested loops of _merge_topic_attributes, from the n-th (fact, field) pair on
RECURSIVE merge_from(_, _, _, _, _)
merge_from(topic, rels, n, out, trunc_len) ==
    IF n > Len(rels) * Len(merge_fields) THEN out
    ELSE LET it == rels[((n - 1) \div Len(merge_fields)) + 1]
             f == merge_fields[((n - 1) % Len(merge_fields)) + 1]
             attrs == IF it.entity1 = topic THEN it.entity1_attributes
                      ELSE IF it.entity2 = topic THEN it.entity2_attributes
                      ELSE <<>>
             v == DictGet(attrs, f)
         IN  merge_from(topic, rels, n + 1,
                 IF IsStr(v) /\ Len(Strip(v)) > 0 /\ f \notin DictKeys(out)
                 THEN Append(out, <<f, truncate(Strip(v), trunc_len)>>)
                 ELSE out,
                 trunc_len)

merge_topic_attributes_last_wins(topic, rels, trunc_len) ==
    merge_from(topic, [i \in 1..Len(rels) |-> rels[Len(rels) + 1 - i]], 1, <<>>, trunc_len)

merge_topic_attributes(topic, rels, trunc_len) == merge_from(topic, rels, 1, <<>>, trunc_len)

EmptyContext == [topic |-> <<>>, attributes |-> <<>>, relations |-> <<>>]

\* build_context over the fact list rels; it.get raises on an item that is no dict
build_context(topic, rels, relation_limit, trunc_len) ==
    LET dicts == SelectSeq(rels, LAMBDA r : r.is_dict)
        ranked == ranked_by_score(topic, dicts)
        picked == pick_relations(ranked, relation_limit)
    IN  IF \E i \in 1..Len(rels) : ~rels[i].is_dict
        THEN [raised |-> TRUE, ctx |-> EmptyContext]
        ELSE [raised |-> FALSE,
              ctx |-> [topic |-> topic,
                       attributes |-> merge_topic_attributes(topic, rels, trunc_len),
                       relations |-> picked]]

-----------------------------------------------------------------------------
(* KGLLMEnhancer: constants *)

timeout == 25                \* KGLLMEnhancer.timeout, seconds
default_trunc_len == 300     \* trunc_len of KGLLMEnhancer.__init__
evidence_value_limit == 100  \* (v or '')[:100]

\* the literal "相关实体" of answer_with_kg, four ideographs
DefaultTopic == <<"Q", "G", "W", "T">>

\* LLMResponse(content="", ..., model="fallback", finish_reason="error", ...)
SentinelResponse == [content |-> <<>>, model |-> "fallback", finish_reason |-> "error"]

-----------------------------------------------------------------------------
(* KGLLMEnhancer: the evidence trail.  The fixed text of a line is one      *)
(* element of the sequence; a field name is one element too.                *)

EvidenceHeader == <<"evidence:">>

attribute_line(item) ==
    <<"attr-", item[1], ":">>
        \o Take(IF Truthy(item[2]) THEN item[2] ELSE <<>>, evidence_value_limit)

relation_line(i, r) ==
    <<"rel">> \o StrInt(i) \o <<":">>
        \o r.entity1 \o <<" ">> \o r.relation \o <<" ">> \o r.entity2

evidence_lines_no_relations(ctx) ==
    <<EvidenceHeader>>
        \o [i \in 1..Len(ctx.attributes) |-> attribute_line(ctx.attributes[i])]

evidence_lines(ctx) ==
    <<EvidenceHeader>>
        \o [i \in 1..Len(ctx.attributes) |-> attribute_line(ctx.attributes[i])]
        \o [i \in 1..Len(ctx.relations) |-> relation_line(i, ctx.relations[i])]

\* the return value of generate_with_kg
generate_with_kg_output(resp, ctx) ==
    Strip(resp.content) \o <<"\n", "\n">> \o Join(<<"\n">>, evidence_lines(ctx))

\* the return value of answer_with_kg
answer_with_kg_output(resp, ctx) == Strip(resp.content)

\* Counter(names).most_common(1)[0][0]: the first name of the highest count
most_common(names) ==
    LET count(x) == Cardinality({i \in 1..Len(names) : names[i] = x})
        first(x) == SetMin({i \in 1..Len(names) : names[i] = x})
        best == CHOOSE i \in 1..Len(names) :
                    /\ first(names[i]) = i
                    /\ \A j \in 1..Len(names) :
                          \/ count(names[j]) < count(names[i])
                          \/ count(names[j]) = count(names[i]) /\ first(names[j]) >= i
    IN  names[best]

\* the names answer_with_kg collects from kg_result, in order
RECURSIVE entity_names(_)
entity_names(kg_result) ==
    IF kg_result = <<>> THEN <<>>
    ELSE LET item == Head(kg_result)
         IN  (IF item.is_dict /\ IsStr(item.entity1) THEN <<item.entity1>> ELSE <<>>)
          \o (IF item.is_dict /\ IsStr(item.entity2) THEN <<item.entity2>> ELSE <<>>)
          \o entity_names(Tail(kg_result))

\* the topic answer_with_kg builds the context for when kg_result is given
inferred_topic(topic, kg_result) ==
    LET names == entity_names(kg_result)
        t == IF ~Truthy(topic) /\ names # <<>> THEN most_common(names) ELSE topic
    IN  IF Truthy(t) THEN t ELSE DefaultTopic

-----------------------------------------------------------------------------
(* Inputs of the generator model *)

LongValue == Rep("d", default_trunc_len + 1)

Fact(e1, r, e2, a1, a2) ==
    [is_dict |-> TRUE, entity1 |-> e1, relation |-> r, entity2 |-> e2,
     entity1_attributes |-> a1, entity2_attributes |-> a2]

NotADict ==
    [is_dict |-> FALSE, entity1 |-> None, relation |-> None, entity2 |-> None,
     entity1_attributes |-> <<>>, entity2_attributes |-> <<>>]

FactHas == Fact(<<"Z">>, <<"B", "H">>, <<"a">>,
                << <<"type", <<" ", "t", "\n", "t", "t", " ">> >>,
                   <<"description", LongValue>> >>, <<>>)

FactOf == Fact(<<"a">>, <<"s">>, <<"Z">>, <<>>,
               << <<"type", <<"u">> >>, <<"properties", <<" ", " ">> >>,
                  <<"time_complexity", <<"7">> >> >>)

FactNear == Fact(<<"Z", "a">>, <<"s">>, <<"b">>, <<>>, <<>>)

FactNoRelation == Fact(<<"Z">>, None, <<"b">>, << <<"properties", <<"p">> >> >>, <<>>)

\* the kg_result argument: None, or a list
GivenFactLists ==
    {<<>>, <<FactOf>>, <<FactNear, FactOf, FactHas>>, <<FactNoRelation, FactHas, FactOf>>,
     <<FactHas, NotADict>>}

\* what find_entity_relations(topic, limit=50) may return
StoreFactLists == {<<>>, <<FactHas>>, <<FactOf, FactNear, FactHas>>}

Topics == {None, <<>>, <<"Z">>}

\* resp.content of a completed backend call
BackendTexts == {<<>>, <<" ", "o", "k", "\n">>}

-----------------------------------------------------------------------------
(* KGLLMEnhancer: one request, step by step *)

NoRequest ==
    [pc |-> "idle", op |-> "none", topic |-> None,
     kg_given |-> FALSE, kg_result |-> <<>>,
     rels |-> <<>>, storeCalls |-> 0, built |-> FALSE,
     ctx |-> EmptyContext, promptCtx |-> EmptyContext, backendCalls |-> 0,
     deadline |-> 0, outcome |-> "none", resp |-> SentinelResponse,
     output |-> <<>>]

GenInit ==
    /\ builder \in [relation_limit : 0..MaxRelationLimit,
                    trunc_len : {SmallTruncLen, default_trunc_len}]
    /\ gen = NoRequest
    /\ backend = [state |-> "none", content |-> <<>>]
    /\ clock = 0
    /\ genTicks = 0

\* generate_with_kg(topic) is entered
generate_with_kg(topic) ==
    /\ gen.pc = "idle"
    /\ UNCHANGED <<kgVars, resVars, apiVars, lockVars>>
    /\ gen' = [gen EXCEPT !.pc = "build", !.op = "generate_with_kg", !.topic = topic]
    /\ UNCHANGED <<builder, backend, clock, genTicks>>

\* answer_with_kg(user_query, topic, kg_result) is entered
answer_with_kg(topic, kg_given, kg_result) ==
    /\ gen.pc = "idle"
    /\ UNCHANGED <<kgVars, resVars, apiVars, lockVars>>
    /\ gen' = [gen EXCEPT !.pc = "build", !.op = "answer_with_kg", !.topic = topic,
                          !.kg_given = kg_given, !.kg_result = kg_result]
    /\ UNCHANGED <<builder, backend, clock, genTicks>>

\* the request needs no context: answer_with_kg without kg_result and without topic
NoContextNeeded ==
    gen.op = "answer_with_kg" /\ gen.kg_result = <<>> /\ ~Truthy(gen.topic)

\* build_context takes its facts from the list it was given, when that is truthy
UsesGivenFacts == gen.op \in {"answer_with_kg", "build_context"} /\ gen.kg_result # <<>>

\* the context is built: builder.build_context, or the empty context
BuildContext(store_result) ==
    /\ gen.pc = "build"
    /\ UNCHANGED <<kgVars, resVars, apiVars, lockVars>>
    /\ IF NoContextNeeded
       THEN /\ store_result = <<>>
            /\ gen' = [gen EXCEPT !.pc = "built", !.ctx = EmptyContext]
       ELSE LET topic == IF UsesGivenFacts /\ gen.op = "answer_with_kg"
                         THEN inferred_topic(gen.topic, gen.kg_result)
                         ELSE gen.topic
                rels == IF UsesGivenFacts THEN gen.kg_result ELSE store_result
                done == build_context(topic, rels, builder.relation_limit,
                                      builder.trunc_len)
            IN  /\ UsesGivenFacts => store_result = <<>>
                /\ gen' = [gen EXCEPT !.pc = IF done.raised THEN "raised" ELSE "built",
                                      !.rels = rels, !.built = ~done.raised,
                                      !.storeCalls = IF UsesGivenFacts THEN 0 ELSE 1,
                                      !.ctx = done.ctx]
    /\ UNCHANGED <<builder, backend, clock, genTicks>>

\* _safe_llm: ex.submit(_call) starts the worker; fut.result(timeout) starts to wait
Submit ==
    /\ gen.pc = "built"
    /\ UNCHANGED <<kgVars, resVars, apiVars, lockVars>>
    /\ backend' = [state |-> "running", content |-> <<>>]
    /\ gen' = [gen EXCEPT !.pc = "waiting", !.promptCtx = gen.ctx,
                          !.backendCalls = @ + 1, !.deadline = clock + timeout]
    /\ UNCHANGED <<builder, clock, genTicks>>

\* the worker: llm.generate_response returns
BackendReturns(content) ==
    /\ backend.state = "running"
    /\ UNCHANGED <<kgVars, resVars, apiVars, lockVars>>
    /\ backend' = [state |-> "returned", content |-> content]
    /\ UNCHANGED <<builder, gen, clock, genTicks>>

\* the worker: llm.generate_response raises
BackendRaises ==
    /\ backend.state = "running"
    /\ UNCHANGED <<kgVars, resVars, apiVars, lockVars>>
    /\ backend' = [state |-> "raised", content |-> <<>>]
    /\ UNCHANGED <<builder, gen, clock, genTicks>>

WaitCompleted_overwrites ==
    /\ gen.pc \in {"waiting", "shutdown"} /\ backend.state = "returned"
    /\ gen.outcome # "completed"
    /\ UNCHANGED <<kgVars, resVars, apiVars, lockVars>>
    /\ gen' = [gen EXCEPT !.pc = "shutdown", !.outcome = "completed",
                          !.resp = [content |-> backend.content, model |-> "llm",
                                    finish_reason |-> "stop"]]
    /\ UNCHANGED <<builder, backend, clock, genTicks>>

\* fut.result(timeout) returns the response of the worker
WaitCompleted ==
    /\ gen.pc = "waiting" /\ backend.state = "returned"
    /\ UNCHANGED <<kgVars, resVars, apiVars, lockVars>>
    /\ gen' = [gen EXCEPT !.pc = "shutdown", !.outcome = "completed",
                          !.resp = [content |-> backend.content, model |-> "llm",
                                    finish_reason |-> "stop"]]
    /\ UNCHANGED <<builder, backend, clock, genTicks>>

\* fut.result(timeout) re-raises the exception of the worker: the sentinel
WaitErrored ==
    /\ gen.pc = "waiting" /\ backend.state = "raised"
    /\ UNCHANGED <<kgVars, resVars, apiVars, lockVars>>
    /\ gen' = [gen EXCEPT !.pc = "shutdown", !.outcome = "errored",
                          !.resp = SentinelResponse]
    /\ UNCHANGED <<builder, backend, clock, genTicks>>

\* fut.result(timeout) raises TimeoutError at the deadline: the sentinel
WaitTimedOut ==
    /\ gen.pc = "waiting" /\ backend.state = "running"
    /\ UNCHANGED <<kgVars, resVars, apiVars, lockVars>>
    /\ clock >= gen.deadline
    /\ gen' = [gen EXCEPT !.pc = "shutdown", !.outcome = "timedout",
                          !.resp = SentinelResponse]
    /\ UNCHANGED <<builder, backend, clock, genTicks>>

\* leaving `with ThreadPoolExecutor(...) as ex` is ex.shutdown(wait=True): it
\* returns when the worker thread has ended
executor_exit_enabled == backend.state \in {"returned", "raised"}

\* the with-block is left and the operation returns its string
Return ==
    /\ gen.pc = "shutdown"
    /\ UNCHANGED <<kgVars, resVars, apiVars, lockVars>>
    /\ executor_exit_enabled
    /\ gen' = [gen EXCEPT !.pc = "done",
                          !.output = IF gen.op = "generate_with_kg"
                                     THEN generate_with_kg_output(gen.resp, gen.ctx)
                                     ELSE answer_with_kg_output(gen.resp, gen.ctx)]
    /\ UNCHANGED <<builder, backend, clock, genTicks>>

\* the caller is blocked: in fut.result before the deadline, or in ex.shutdown
CallerBlocked ==
    \/ gen.pc = "waiting" /\ backend.state = "running" /\ clock < gen.deadline
    \/ gen.pc = "shutdown" /\ ~executor_exit_enabled

\* time passes while the caller is blocked; its own steps take no time
GenTick ==
    /\ CallerBlocked
    /\ UNCHANGED <<kgVars, resVars, apiVars, lockVars>>
    /\ genTicks < MaxGenTicks
    /\ genTicks' = genTicks + 1
    /\ clock' = clock + timeout
    /\ UNCHANGED <<builder, gen, backend>>

GenNext ==
    \/ \E topic \in Topics \ {None} : generate_with_kg(topic)
    \/ \E topic \in Topics : answer_with_kg(topic, FALSE, <<>>)
    \/ \E topic \in Topics, kg_result \in GivenFactLists :
          answer_with_kg(topic, TRUE, kg_result)
    \/ \E store_result \in StoreFactLists : BuildContext(store_result)
    \/ Submit
    \/ \E content \in BackendTexts : BackendReturns(content)
    \/ BackendRaises
    \/ WaitCompleted
    \/ WaitErrored
    \/ WaitTimedOut
    \/ Return
    \/ GenTick

\* a fact whose relation is the empty string
FactEmptyRelation == Fact(<<"Z">>, <<>>, <<"a">>, <<>>, <<>>)

\* a fact whose entity2 is the empty string, with a keyword in its relation
FactEmptyEnd == Fact(<<"a", "Z">>, <<"B", "H">>, <<>>, <<>>, <<>>)

\* the kg_result argument of a direct build_context call
BuildFactLists ==
    GivenFactLists \cup {<<FactEmptyRelation, FactNear>>, <<FactOf, FactEmptyEnd, FactHas>>}

\* builder.build_context(topic, kg_result) is called on its own
BuildContextEntered(topic, kg_given, kg_result) ==
    /\ gen.pc = "idle"
    /\ UNCHANGED <<kgVars, resVars, apiVars, lockVars>>
    /\ gen' = [gen EXCEPT !.pc = "build", !.op = "build_context", !.topic = topic,
                          !.kg_given = kg_given, !.kg_result = kg_result]
    /\ UNCHANGED <<builder, backend, clock, genTicks>>

BuildNext ==
    \/ \E topic \in Topics \ {None} : BuildContextEntered(topic, FALSE, <<>>)
    \/ \E topic \in Topics \ {None}, kg_result \in BuildFactLists :
          BuildContextEntered(topic, TRUE, kg_result)
    \/ \E store_result \in StoreFactLists : BuildContext(store_result)

KGIdle ==
    /\ query_cache = <<>> /\ now = 0 /\ ticks = 0 /\ call = NoCall
    /\ calls = 0 /\ storeQueries = 0 /\ lastQuery = <<>>

GenIdle ==
    /\ builder = [relation_limit |-> 0, trunc_len |-> default_trunc_len]
    /\ gen = NoRequest
    /\ backend = [state |-> "none", content |-> <<>>]
    /\ clock = 0
    /\ genTicks = 0

-----------------------------------------------------------------------------
(* IntentRecognizer: candidates.  In this part an ideograph is written as   *)
(* its reading ("dui", "zhan"), one element of the sequence per character;  *)
(* "fwcomma" and "fwstop" are the full-width comma and full stop.           *)

\* the characters of the class [\\u4e00-\\u9fa5A-Za-z\\+] of the raw-string pattern:
\* backslash, 0x30-0x5c, a-z and +, of which these occur in the inputs
PairClassChars == {"a", "b", "7", "+", "L", "I", "F", "O"}

Connectors == {"he", "yu"}

SingleTerminators == {"de", "zhi", "fwcomma", ",", "fwstop"}

DoubleTerminators == {<<"guan", "xi">>, <<"qu", "bie">>}

\* the stopword set without its first word
stopwords_without_sorting == {<<"shu">>, <<"lu", "jing">>, <<"tu">>, <<"suan", "fa">>}

stopwords == {<<"pai", "xu">>, <<"shu">>, <<"lu", "jing">>, <<"tu">>, <<"suan", "fa">>}

BonusTexts == {<<"shi", "jian", "fu", "za", "du">>}

\* text.find(t): the first index, from 0, or -1
Find(text, t) ==
    IF Contains(text, t)
    THEN SetMin({i \in 0..(Len(text) - Len(t)) : SubSeq(text, i + 1, i + Len(t)) = t})
    ELSE -1

\* the orders list(cands) may have
Orders(cands) ==
    {f \in [1..Cardinality(cands) -> cands] :
        \A i, j \in 1..Cardinality(cands) : f[i] = f[j] => i = j}

\* the synonyms of the knowledge base found in the text, with their standard names
synonym_candidates(text, kb) ==
    UNION {UNION {IF kb[i][2][j] # <<>> /\ Contains(text, kb[i][2][j])
                  THEN {kb[i][2][j], kb[i][1]} ELSE {}
                  : j \in 1..Len(kb[i][2])}
           : i \in 1..Len(kb)}

\* the end of the run of class characters that starts at position from
RECURSIVE run_end(_, _)
run_end(text, from) ==
    IF from <= Len(text) /\ text[from] \in PairClassChars
    THEN run_end(text, from + 1) ELSE from - 1

\* the start of the run of class characters that ends at position to
RECURSIVE run_start(_, _)
run_start(text, to) ==
    IF to >= 1 /\ text[to] \in PairClassChars
    THEN run_start(text, to - 1) ELSE to + 1

terminated_at(text, q) ==
    \/ q <= Len(text) /\ text[q] \in SingleTerminators
    \/ q + 1 <= Len(text) /\ <<text[q], text[q + 1]>> \in DoubleTerminators

\* the groups of re.finditer(pair_pat, text): X and Y around a connector
pair_candidates(text) ==
    UNION {IF /\ text[p] \in Connectors
              /\ run_start(text, p - 1) <= p - 1
              /\ run_end(text, p + 1) >= p + 1
              /\ terminated_at(text, run_end(text, p + 1) + 1)
           THEN {SubSeq(text, run_start(text, p - 1), p - 1),
                 SubSeq(text, p + 1, run_end(text, p + 1))}
           ELSE {}
           : p \in 1..Len(text)}

augment_candidates(text, kb) == synonym_candidates(text, kb) \cup pair_candidates(text)

Candidate(t, s, epos, label) == [text |-> t, start |-> s, end |-> epos, label |-> label]

\* the first loop of _postprocess_entities: the raw candidates with a text
raw_items(text, entities_raw) ==
    LET item(e) ==
            IF e.is_dict THEN Candidate(e.text, e.start, e.end, e.label)
            ELSE LET s == Find(text, e.text)
                 IN  Candidate(e.text, s, IF s >= 0 THEN s + Len(e.text) ELSE -1, "None")
        named == SelectSeq(entities_raw, LAMBDA e : e.text # <<>>)
    IN  [i \in 1..Len(named) |-> item(named[i])]

\* the second loop: the augmented candidates, in the order of list(cands)
RECURSIVE add_augmented(_, _, _)
add_augmented(text, items, order) ==
    IF order = <<>> THEN items
    ELSE LET t == Head(order)
             s == Find(text, t)
             fresh == t # <<>> /\ \A i \in 1..Len(items) : items[i].text # t
         IN  add_augmented(text,
                 IF fresh
                 THEN Append(items, Candidate(t, s, IF s >= 0 THEN s + Len(t) ELSE -1,
                                              "NAMED_ENTITY"))
                 ELSE items,
                 Tail(order))

\* the uniq dict: one candidate per text, a NAMED_ENTITY one replacing one that is not
uniq_by_text(items) ==
    LET firstAt(t) == SetMin({i \in 1..Len(items) : items[i].text = t})
        named(t) == {i \in 1..Len(items) :
                        items[i].text = t /\ items[i].label = "NAMED_ENTITY"}
        kept(i) == IF items[i].label # "NAMED_ENTITY" /\ named(items[i].text) # {}
                   THEN items[SetMin(named(items[i].text))]
                   ELSE items[i]
        firsts == SelectSeq([i \in 1..Len(items) |-> i],
                            LAMBDA i : firstAt(items[i].text) = i)
    IN  [k \in 1..Len(firsts) |-> kept(firsts[k])]

long_enough_keeps_single(items) == SelectSeq(items, LAMBDA it : Len(Strip(it.text)) >= 1)

long_enough(items) == SelectSeq(items, LAMBDA it : Len(Strip(it.text)) > 1)

\* sorted(items, key=...): ascending and stable; keys[i] is the key of items[i]
sorted_by(items, keys) ==
    LET n == Len(items)
        Before(j, i) ==
            \/ keys[j] < keys[i]
            \/ keys[j] = keys[i] /\ j < i
        rank(i) == Cardinality({j \in 1..n : Before(j, i)}) + 1
    IN  [r \in 1..n |-> items[CHOOSE i \in 1..n : rank(i) = r]]

\* sorted(items, key=len(text), reverse=True)
items_sorted(items) ==
    sorted_by(items, [i \in 1..Len(items) |-> 0 - Len(items[i].text)])

overlap_if_same_span(s, epos, taken_spans) ==
    \E i \in 1..Len(taken_spans) : taken_spans[i] = <<s, epos>>

\* any(not (epos <= ts or s >= te) for ts, te in taken_spans)
overlap(s, epos, taken_spans) ==
    \E i \in 1..Len(taken_spans) :
        ~(epos <= taken_spans[i][1] \/ s >= taken_spans[i][2])

\* e.get("start") or e.get("end") of a candidate without that key: None,
\* written as an integer that no span of the inputs uses
NoneSpan == 0 - 2

\* `s >= 0 and epos >= 0` raises TypeError when it compares None
span_test_raises(s, epos) == s = NoneSpan \/ (s >= 0 /\ epos = NoneSpan)

\* the selection loop, from the n-th sorted candidate on: the kept
\* candidates, or the exception of the span test
RECURSIVE select_from(_, _, _, _)
select_from(sorted, n, taken_spans, keep) ==
    IF n > Len(sorted) THEN [raised |-> FALSE, keep |-> keep]
    ELSE LET it == sorted[n]
         IN  IF it.text \in stopwords
             THEN select_from(sorted, n + 1, taken_spans, keep)
             ELSE IF span_test_raises(it.start, it.end)
             THEN [raised |-> TRUE, keep |-> <<>>]
             ELSE IF it.start >= 0 /\ it.end >= 0
             THEN IF overlap(it.start, it.end, taken_spans)
                  THEN select_from(sorted, n + 1, taken_spans, keep)
                  ELSE select_from(sorted, n + 1,
                                   Append(taken_spans, <<it.start, it.end>>),
                                   Append(keep, it))
             ELSE select_from(sorted, n + 1, taken_spans, Append(keep, it))

select_keep(items) == select_from(items_sorted(items), 1, <<>>, <<>>)

\* _cosine(query_emb, ent_emb) in halves: 0 without an embedder, else a value
\* the embedding model gives to the candidate text
cosine(embed, text) ==
    IF embed = "none" THEN 0
    ELSE IF Head(text) \in PairClassChars THEN 2
    ELSE IF Len(text) > 2 THEN 0 - 1
    ELSE 1

\* sim * length_w * label_w * bonus, as the square that keeps its sign and order:
\* length_w is max(1, sqrt(len)), label_w is 1.2 or 1.0, bonus is 1.5 or 1.0
score(embed, it) ==
    LET sim == cosine(embed, it.text)
        sign == IF sim < 0 THEN 0 - 1 ELSE 1
        length_w2 == IF Len(it.text) > 1 THEN Len(it.text) ELSE 1
        label_w2 == IF it.label = "NAMED_ENTITY" THEN 144 ELSE 100
        bonus2 == IF it.text \in BonusTexts THEN 225 ELSE 100
    IN  sign * sim * sim * length_w2 * label_w2 * bonus2

\* scored.sort(key=score, reverse=True) and the texts of the outcome
scored_texts(embed, keep) ==
    LET scored == sorted_by(keep, [i \in 1..Len(keep) |-> 0 - score(embed, keep[i])])
    IN  [i \in 1..Len(scored) |-> scored[i].text]

\* sorted(result, key=lambda n: (0 if in_kg(n) else 1, -len(n)))
kg_first(result, kg_names) ==
    LET key(n) == (IF n \in kg_names THEN 0 ELSE 1) * 1000 - Len(n)
    IN  sorted_by(result, [i \in 1..Len(result) |-> key(result[i])])

\* list(dict.fromkeys(result))
dedup(result) ==
    LET firsts == SelectSeq([i \in 1..Len(result) |-> i],
                      LAMBDA i : \A j \in 1..(i - 1) : result[j] # result[i])
    IN  [k \in 1..Len(firsts) |-> result[firsts[k]]]

-----------------------------------------------------------------------------
(* Inputs of the resolver model *)

Raw(t, s, epos, label) ==
    [is_dict |-> TRUE, text |-> t, start |-> s, end |-> epos, label |-> label]

RawStr(t) == [is_dict |-> FALSE, text |-> t, start |-> 0, end |-> 0, label |-> "None"]

RawUniverse ==
    {Raw(<<"dui", "zhan">>, 0, 2, "NAMED_ENTITY"),
     Raw(<<"zhan", "he">>, 1, 3, "OTHER"),
     Raw(<<"dui", "zhan", "he">>, 0, 3, "None"),
     Raw(<<"zhan", "he">>, 4, 6, "NAMED_ENTITY"),
     Raw(<<"pai", "xu">>, 6, 8, "NAMED_ENTITY"),
     Raw(<<"b", "+">>, 0 - 1, 0 - 1, "OTHER"),
     Raw(<<"+", "7">>, 5, 1, "OTHER"),
     Raw(<<>>, 0, 0, "OTHER"),
     RawStr(<<"a", "b">>)}

RawLists ==
    UNION {{f \in [1..n -> RawUniverse] : \A i, j \in 1..n : f[i] = f[j] => i = j}
           : n \in 0..MaxCandidates}

Utterances ==
    {<<"dui", "zhan", "he", "a", "b", "de", "pai", "xu">>,
     <<"a", "b", "he", "b", "+", ",", "zhan">>,
     <<"b", "de", "fu", "za", "du">>}

\* KNOWLEDGE_BASE["entities"]: standard name and synonyms
KnowledgeBase ==
    << <<(<<"zhan">>), << <<"dui", "zhan">>, <<"a", "b">> >> >>,
       <<(<<"shi", "jian", "fu", "za", "du">>), << <<"fu", "za", "du">>, <<>> >> >> >>

\* the names find_entity_relations(name, limit=1) finds something for
KGNames == {<<"a", "b">>, <<"b", "+">>}

-----------------------------------------------------------------------------
(* IntentRecognizer._postprocess_entities, step by step *)

\* listed and order: whether this process has listed the candidate set of the
\* text, and the order its string hashes gave the list; run and prev: history
NoPost ==
    [pc |-> "idle", text |-> <<>>, entities_raw |-> <<>>, items |-> <<>>,
     keep |-> <<>>, ranked |-> <<>>, result |-> <<>>,
     listed |-> FALSE, order |-> <<>>,
     run |-> 0, prev |-> [any |-> FALSE, result |-> <<>>],
     ext |-> "none", tagger |-> "none", extracted |-> <<>>]

\* the import of KNOWLEDGE_BASE may fail, the embedder may be missing, and
\* kg_query is None until it is set
ResInit ==
    /\ recognizer \in [kb : {<<>>, KnowledgeBase}, embed : {"none", "model"},
                       kg_query : {"None", "kg"}, use_w2ner : {TRUE}]
    /\ post = NoPost

ResIdle ==
    /\ recognizer = [kb |-> <<>>, embed |-> "none", kg_query |-> "None",
                     use_w2ner |-> TRUE]
    /\ post = NoPost

\* _postprocess_entities(text, entities_raw) is entered
postprocess_entities(text, entities_raw) ==
    /\ post.pc = "idle"
    /\ UNCHANGED <<kgVars, genVars, apiVars, lockVars>>
    /\ post' = [post EXCEPT !.pc = "collect", !.text = text,
                            !.entities_raw = entities_raw, !.run = 1]
    /\ UNCHANGED recognizer

\* raw and augmented candidates, one per text, longer than one character.
\* list(cands) follows the string hashes of the process: any order the first
\* time, and the same order for the same set while the process lives
CollectCandidates ==
    /\ post.pc = "collect"
    /\ UNCHANGED <<kgVars, genVars, apiVars, lockVars>>
    /\ \E order \in Orders(augment_candidates(post.text, recognizer.kb)) :
          /\ post.listed => order = post.order
          /\ post' = [post EXCEPT
                      !.pc = "select", !.listed = TRUE, !.order = order,
                      !.items = long_enough(uniq_by_text(
                                    add_augmented(post.text,
                                        raw_items(post.text, post.entities_raw),
                                        order)))]
    /\ UNCHANGED recognizer

\* the longest candidates whose spans do not overlap
SelectKeep ==
    /\ post.pc = "select"
    /\ UNCHANGED <<kgVars, genVars, apiVars, lockVars>>
    /\ LET selected == select_keep(post.items)
       IN  post' = [post EXCEPT !.pc = IF selected.raised THEN "raised" ELSE "score",
                                !.keep = selected.keep]
    /\ UNCHANGED recognizer

\* the texts by descending score
ScoreKept ==
    /\ post.pc = "score"
    /\ UNCHANGED <<kgVars, genVars, apiVars, lockVars>>
    /\ post' = [post EXCEPT !.pc = "order",
                            !.ranked = scored_texts(recognizer.embed, post.keep),
                            !.result = scored_texts(recognizer.embed, post.keep)]
    /\ UNCHANGED recognizer

\* names known to the store first, duplicates dropped, and the return
ReturnResult ==
    /\ post.pc = "order"
    /\ UNCHANGED <<kgVars, genVars, apiVars, lockVars>>
    /\ post' = [post EXCEPT
                   !.pc = "returned",
                   !.result = dedup(IF recognizer.kg_query # "None"
                                    THEN kg_first(post.result, KGNames)
                                    ELSE post.result)]
    /\ UNCHANGED recognizer

\* the utterance "zhan zun xun LIFO yuan ze" with its two candidates
ExampleText == <<"zhan", "zun", "xun", "L", "I", "F", "O", "yuan", "ze">>

ExampleCandidates ==
    <<Raw(<<"zhan">>, 0, 1, "Tagged"), Raw(<<"L", "I", "F", "O">>, 5, 9, "Synonym")>>

ResNext ==
    \/ \E text \in Utterances, entities_raw \in RawLists :
          postprocess_entities(text, entities_raw)
    \/ postprocess_entities(ExampleText, ExampleCandidates)
    \/ CollectCandidates
    \/ SelectKeep
    \/ ScoreKept
    \/ ReturnResult

\* the same call is made a second time
SecondRun ==
    /\ post.pc = "returned" /\ post.run = 1
    /\ UNCHANGED <<kgVars, genVars, apiVars, lockVars>>
    /\ post' = [post EXCEPT !.pc = "collect", !.run = 2,
                            !.prev = [any |-> TRUE, result |-> post.result],
                            !.items = <<>>, !.keep = <<>>, !.ranked = <<>>,
                            !.result = <<>>]
    /\ UNCHANGED recognizer

\* the program is started anew between two calls: the knowledge base, the
\* embedder and the store are the same, the string hashes are drawn anew
Restart ==
    /\ post.pc = "returned" /\ post.run = 1 /\ post.listed
    /\ UNCHANGED <<kgVars, genVars, apiVars, lockVars>>
    /\ post' = [post EXCEPT !.listed = FALSE, !.order = <<>>]
    /\ UNCHANGED recognizer

\* candidate lists of the repeated calls
RerunLists ==
    {<<>>,
     <<Raw(<<"b", "+">>, 0 - 1, 0 - 1, "OTHER")>>,
     <<Raw(<<"zhan", "he">>, 1, 3, "OTHER"), Raw(<<"dui", "zhan">>, 0, 2, "NAMED_ENTITY")>>}

RerunNext ==
    \/ \E text \in Utterances, entities_raw \in RerunLists :
          postprocess_entities(text, entities_raw)
    \/ CollectCandidates
    \/ SelectKeep
    \/ ScoreKept
    \/ ReturnResult
    \/ SecondRun
    \/ Restart

-----------------------------------------------------------------------------
(* IntentRecognizer.extract_entities, around _postprocess_entities *)

\* self.entities_kb: entity id and synonyms
EntitiesKB == KnowledgeBase

\* _extract_elements(text)[0]: the ids with a synonym in the text, in order
extract_elements(text, entities_kb) ==
    LET found == SelectSeq(entities_kb, LAMBDA e :
                     \E j \in 1..Len(e[2]) : Contains(text, e[2][j]))
    IN  [i \in 1..Len(found) |-> found[i][1]]

extract_result_without_fallback(completed, ents, keyword_match) ==
    IF completed THEN ents ELSE keyword_match

\* what extract_entities returns: the post-processed list when the try block
\* completed with a non-empty one, else the keyword match
extract_result(completed, ents, keyword_match) ==
    IF completed /\ ents # <<>> THEN ents ELSE keyword_match

\* the tagger may be switched off or may have failed to load
ExtractInit ==
    /\ recognizer \in [kb : {<<>>, KnowledgeBase}, embed : {"none", "model"},
                       kg_query : {"None", "kg"}, use_w2ner : BOOLEAN]
    /\ post = NoPost

\* extract_entities(text) is entered
extract_entities(text) ==
    /\ post.pc = "idle" /\ post.ext = "none"
    /\ UNCHANGED <<kgVars, genVars, apiVars, lockVars>>
    /\ post' = [post EXCEPT !.ext = "entered", !.text = text]
    /\ UNCHANGED recognizer

\* not (self.use_w2ner and self.ner_processor): the keyword match
TaggerUnavailable ==
    /\ post.ext = "entered" /\ ~recognizer.use_w2ner
    /\ UNCHANGED <<kgVars, genVars, apiVars, lockVars>>
    /\ post' = [post EXCEPT
                   !.ext = "returned", !.tagger = "unavailable",
                   !.extracted = extract_result(FALSE, <<>>,
                                     extract_elements(post.text, EntitiesKB))]
    /\ UNCHANGED recognizer

\* run_ner_prediction raises, or returns no result for the text (res[0]
\* raises): the except clause logs, and the keyword match is returned
TaggerRaises ==
    /\ post.ext = "entered" /\ recognizer.use_w2ner
    /\ UNCHANGED <<kgVars, genVars, apiVars, lockVars>>
    /\ post' = [post EXCEPT
                   !.ext = "returned", !.tagger = "raised",
                   !.extracted = extract_result(FALSE, <<>>,
                                     extract_elements(post.text, EntitiesKB))]
    /\ UNCHANGED recognizer

\* run_ner_prediction returns the candidates; _postprocess_entities is entered
TaggerReturns(entities_raw) ==
    /\ post.ext = "entered" /\ recognizer.use_w2ner
    /\ UNCHANGED <<kgVars, genVars, apiVars, lockVars>>
    /\ post' = [post EXCEPT !.ext = "post", !.tagger = "returned",
                            !.pc = "collect", !.entities_raw = entities_raw,
                            !.run = 1]
    /\ UNCHANGED recognizer

\* _postprocess_entities has returned or raised: extract_entities returns
ExtractReturns ==
    /\ post.ext = "post" /\ post.pc \in {"returned", "raised"}
    /\ UNCHANGED <<kgVars, genVars, apiVars, lockVars>>
    /\ post' = [post EXCEPT
                   !.ext = "returned",
                   !.extracted = extract_result(post.pc = "returned", post.result,
                                     extract_elements(post.text, EntitiesKB))]
    /\ UNCHANGED recognizer

\* what run_ner_prediction may give for the text
TaggerOutputs ==
    {<<>>,
     <<Raw(<<"pai", "xu">>, 6, 8, "NAMED_ENTITY")>>,
     <<Raw(<<"dui", "zhan">>, 0, 2, "NAMED_ENTITY"), Raw(<<"zhan", "he">>, 1, 3, "OTHER")>>,
     <<Raw(<<"b", "+">>, 3, 5, "OTHER"), Raw(<<"fu", "za">>, NoneSpan, NoneSpan, "OTHER")>>,
     <<Raw(<<"de", "fu">>, 0 - 1, NoneSpan, "OTHER")>>,
     <<Raw(<<"de", "fu">>, 1, NoneSpan, "OTHER")>>}

ExtractNext ==
    \/ \E text \in Utterances : extract_entities(text)
    \/ TaggerUnavailable
    \/ TaggerRaises
    \/ \E entities_raw \in TaggerOutputs : TaggerReturns(entities_raw)
    \/ CollectCandidates
    \/ SelectKeep
    \/ ScoreKept
    \/ ReturnResult
    \/ ExtractReturns

-----------------------------------------------------------------------------
(* APIHandler.process_query and its handlers.  A call of a collaborator     *)
(* (recognizer, store client, LLM client) either raises or returns a value: *)
(* an outcome is the record of the two.  A response dict is a record.       *)

Raises(e) == [raised |-> TRUE, error |-> e, value |-> <<>>]

Returns(v) == [raised |-> FALSE, error |-> <<>>, value |-> v]

\* self.intent_to_kg_method
intent_to_kg_method ==
    [find_entity_by_relation_and_entity |-> "_handle_find_entity_by_relation",
     find_relation_by_two_entities |-> "_handle_find_relation_between_entities",
     find_single_entity |-> "_handle_find_single_entity",
     other |-> "_handle_general_query"]

\* the handler process_query picks for the intent
handler_for(intent) ==
    IF intent \in DOMAIN intent_to_kg_method THEN intent_to_kg_method[intent]
    ELSE "_handle_general_query"

\* the fixed sentences of the responses
EmptyInputMessage == <<"empty_input">>
QueryFailedPrefix == <<"query_failed", ":">>
LLMUnavailable == <<"llm_unavailable">>
LLMFailedPrefix == <<"llm_failed", ":">>

\* return value of process_query for an empty or blank input
empty_input_response ==
    [success |-> FALSE, message |-> EmptyInputMessage, graphData |-> <<>>]

query_failed_response_without_graph(e) ==
    [success |-> FALSE, message |-> QueryFailedPrefix \o e]

\* the except clause of process_query
query_failed_response(e) ==
    [success |-> FALSE, message |-> QueryFailedPrefix \o e, graphData |-> <<>>]

\* _generate_llm_response: the fixed sentence without a client, the content of
\* the client's response, or the error sentence when the client raises
generate_llm_response(llm_client, llm) ==
    IF llm_client = "None" THEN LLMUnavailable
    ELSE IF llm.raised THEN LLMFailedPrefix \o llm.error
    ELSE llm.value

\* a record of the store client's result, as _convert_to_graph_data sees it:
\* a dict in the simple format, a dict whose entity2 is unhashable, a dict
\* without entity1, or no dict
KGRow(kind, e1, r, e2) == [kind |-> kind, entity1 |-> e1, relation |-> r, entity2 |-> e2]

\* the value None where the store client should give a list of records
KGNone == <<KGRow("None", <<>>, <<>>, <<>>)>>

\* the items of the simple format: a dict with entity1, entity2 and a str entity1
simple_items(result) == SelectSeq(result, LAMBDA item : item.kind = "simple")

\* the node ids in the order the loop appends them: entity1 then entity2 of
\* each item, an id already in node_ids being skipped
graph_nodes(result) ==
    LET items == simple_items(result)
        ids == [k \in 1..(2 * Len(items)) |->
                   IF k % 2 = 1 THEN items[(k + 1) \div 2].entity1
                   ELSE items[k \div 2].entity2]
    IN  dedup(ids)

\* the links in the order the loop appends them: an item adds its link unless
\* link_keys holds its key or the key of the opposite direction, which is so
\* exactly when an earlier item has the same ends and relation
graph_links(result) ==
    LET items == simple_items(result)
        link_key1 == [i \in 1..Len(items) |->
                         <<items[i].entity1, items[i].entity2, items[i].relation>>]
        link_key2 == [i \in 1..Len(items) |->
                         <<items[i].entity2, items[i].entity1, items[i].relation>>]
        firsts == SelectSeq([i \in 1..Len(items) |-> i],
                      LAMBDA i : \A j \in 1..(i - 1) :
                          link_key1[j] # link_key1[i] /\ link_key1[j] # link_key2[i])
    IN  [k \in 1..Len(firsts) |-> link_key1[firsts[k]]]

\* _convert_to_graph_data(result): {} for no result, else at most 20 nodes
\* and 30 links; testing an unhashable entity2 against node_ids raises
convert_to_graph_data(result) ==
    IF result = KGNone \/ result = <<>> THEN Returns(<<>>)
    ELSE IF \E i \in 1..Len(result) : result[i].kind = "unhashable"
    THEN Raises(<<"TypeError">>)
    ELSE Returns([nodes |-> Take(graph_nodes(result), 20),
                   links |-> Take(graph_links(result), 30)])

\* the dict a handler returns when the store was queried; building it raises
\* when the conversion raises or when result[:10] slices None
found_response(success, message, result) ==
    LET graph == convert_to_graph_data(result)
    IN  IF graph.raised THEN graph
        ELSE IF result = KGNone THEN Raises(<<"TypeError">>)
        ELSE Returns([success |-> success, message |-> message,
                       graphData |-> graph.value, kg_result |-> Take(result, 10)])

\* the dict a handler returns without graph data
plain_response(success, message) ==
    [success |-> success, message |-> message, graphData |-> <<>>]

\* the keywords that make _handle_find_entity_by_relation assume "contains"
ListingKeywords ==
    {<<"Y", "N", "X">>, <<"B", "H">>, <<"S", "U">>, <<"L", "X">>, <<"F", "L">>, <<"Z", "L">>}

\* what the collaborators do during one handler call: extract_entities,
\* extract_relations, the store query, and the LLM client in the body of the
\* handler and in its except clause
Env(entities, relations, kg, llm, llm_except) ==
    [entities |-> entities, relations |-> relations, kg |-> kg,
     llm |-> llm, llm_except |-> llm_except]

\* the body of a handler that queries the store and answers with its result
query_and_answer(llm_client, env, success) ==
    IF env.kg.raised THEN env.kg
    ELSE found_response(success, generate_llm_response(llm_client, env.llm), env.kg.value)

\* try: body; except Exception: answer from the LLM alone
handled(body, llm_client, env, success) ==
    IF body.raised
    THEN plain_response(success, generate_llm_response(llm_client, env.llm_except))
    ELSE body.value

handle_find_entity_by_relation(query, llm_client, env) ==
    LET listing == \E keyword \in ListingKeywords : Contains(query, keyword)
        body ==
            IF env.entities.raised THEN env.entities
            ELSE IF env.relations.raised THEN env.relations
            ELSE IF env.entities.value # <<>> /\ env.relations.value = <<>> /\ ~listing
            \* self._handle_find_entity_relations does not exist
            THEN Raises(<<"AttributeError">>)
            ELSE IF env.entities.value # <<>>
            THEN query_and_answer(llm_client, env, TRUE)
            ELSE Returns(plain_response(TRUE, generate_llm_response(llm_client, env.llm)))
    IN  handled(body, llm_client, env, TRUE)

handle_find_relation_between_entities(query, llm_client, env) ==
    LET body ==
            IF env.entities.raised THEN env.entities
            ELSE IF Len(env.entities.value) >= 2
            THEN query_and_answer(llm_client, env, TRUE)
            ELSE Returns(plain_response(FALSE, generate_llm_response(llm_client, env.llm)))
    IN  handled(body, llm_client, env, FALSE)

handle_find_single_entity(query, llm_client, env) ==
    LET body ==
            IF env.entities.raised THEN env.entities
            ELSE IF env.entities.value # <<>>
            THEN query_and_answer(llm_client, env, TRUE)
            ELSE Returns(plain_response(FALSE, generate_llm_response(llm_client, env.llm)))
    IN  handled(body, llm_client, env, FALSE)

handle_general_query(query, llm_client, env) ==
    plain_response(TRUE, generate_llm_response(llm_client, env.llm))

\* handler(user_input)
handler_response(handler, query, llm_client, env) ==
    CASE handler = "_handle_find_entity_by_relation" ->
             handle_find_entity_by_relation(query, llm_client, env)
      [] handler = "_handle_find_relation_between_entities" ->
             handle_find_relation_between_entities(query, llm_client, env)
      [] handler = "_handle_find_single_entity" ->
             handle_find_single_entity(query, llm_client, env)
      [] OTHER -> handle_general_query(query, llm_client, env)

\* the inputs: empty, blank, padded, with special characters, with a listing
\* keyword, and very long
-----------------------------------------------------------------------------
(* IntentRecognizer._rule_based_intent_recognition.  text.lower() changes   *)
(* nothing in the modelled texts: their letters stand for ideographs.      *)

relation_between_patterns ==
    {<<"G", "X">>, <<"L", "I">>, <<"Q", "B">>, <<"C", "Y">>, <<"X", "T">>,
     <<"B", "T">>, <<"B", "J">>}

find_by_relation_patterns ==
    {<<"Y", "N", "X">>, <<"B", "H">>, <<"S", "U">>, <<"L", "X">>, <<"F", "L">>, <<"Z", "L">>}

single_entity_patterns ==
    {<<"C", "X">>, <<"S", "O">>, <<"zhao">>, <<"X", "S">>, <<"Z", "S">>, <<"H", "Q">>,
     <<"S", "M", "S">>, <<"J", "S">>, <<"X", "X", "X", "X">>, <<"S", "X">>,
     <<"T", "D">>, <<"D", "Y">>, <<"Y", "S", "M">>, <<"de">>, <<"F", "Z", "D">>,
     <<"S", "F">>, <<"S", "J", "J", "G">>, <<"P", "X">>}

rule_based_intent_recognition(text) ==
    IF \E pattern \in relation_between_patterns : Contains(text, pattern)
    THEN "find_relation_by_two_entities"
    ELSE IF \E pattern \in find_by_relation_patterns : Contains(text, pattern)
    THEN "find_entity_by_relation_and_entity"
    ELSE IF \E pattern \in single_entity_patterns : Contains(text, pattern)
    THEN "find_entity_definition"
    ELSE "other"

\* the labels the return statements of the rule-based path name
rule_intents ==
    {"find_relation_by_two_entities", "find_entity_by_relation_and_entity",
     "find_entity_definition", "other"}

\* a store answer of ManyRows relations between entities met nowhere else
many_relations ==
    [i \in 1..ManyRows |-> KGRow("simple", Rep("a", i), <<"B", "H">>, Rep("b", i))]

UserInputs ==
    {<<>>, <<" ", "\n">>, <<" ", "a", " ">>, <<"'", ";", "-", "-">>,
     <<"Z", "B", "H">>, Rep("a", MAX_ENTITY_LENGTH + 1),
     <<"S", "M", "S", "E", "C", "S">>, <<"zhan", "he", "dui", "de", "G", "X">>}

\* what recognize_intent may give: an exception, a key of the map, or another string
IntentOutcomes ==
    {[Raises(<<"ValueError">>) EXCEPT !.value = ""]}
        \cup {Returns(i) : i \in DOMAIN intent_to_kg_method \cup {"find_entity_definition"}}

EntityOutcomes ==
    {Raises(<<"RuntimeError">>), Returns(<<>>), Returns(<<<<"zhan">>>>),
     Returns(<<<<"zhan">>, <<"dui">>>>)}

RelationOutcomes == {Raises(<<"RuntimeError">>), Returns(<<>>), Returns(<<<<"B", "H">>>>)}

KGOutcomes ==
    {Raises(<<"ServiceUnavailable">>), Returns(KGNone), Returns(<<>>),
     Returns(<<KGRow("simple", <<"zhan">>, <<"B", "H">>, <<"dui">>),
                KGRow("simple", <<"dui">>, <<"B", "H">>, <<"zhan">>),
                KGRow("other", <<>>, <<>>, <<>>)>>),
     Returns(<<KGRow("simple", <<"zhan">>, <<"B", "H">>, <<"dui">>),
                KGRow("unhashable", <<"zhan">>, <<"B", "H">>, <<>>)>>),
     Returns(many_relations)}

LLMOutcomes == {Raises(<<"TimeoutError">>), Returns(None), Returns(<<"o", "k">>)}

NoApiCall == [pc |-> "idle", user_input |-> <<>>, intent |-> "", handler |-> "",
              response |-> plain_response(FALSE, <<>>)]

ApiInit ==
    api \in [llm_client : {"None", "client"}, call : {NoApiCall}]

ApiIdle == api = [llm_client |-> "None", call |-> NoApiCall]

\* process_query(user_input): the guard against empty input, then strip()
process_query(user_input) ==
    /\ api.call.pc \in {"idle", "returned"}
    /\ UNCHANGED <<kgVars, genVars, resVars, lockVars>>
    /\ api' = [api EXCEPT !.call =
                 IF user_input = <<>> \/ Strip(user_input) = <<>>
                 THEN [NoApiCall EXCEPT !.pc = "returned", !.user_input = user_input,
                                        !.response = empty_input_response]
                 ELSE [NoApiCall EXCEPT !.pc = "recognize",
                                        !.user_input = Strip(user_input)]]

\* recognize_intent returns or raises; the except clause of process_query
\* answers when it raises
RecognizeIntent(outcome) ==
    /\ api.call.pc = "recognize"
    /\ UNCHANGED <<kgVars, genVars, resVars, lockVars>>
    /\ api' = [api EXCEPT !.call =
                 IF outcome.raised
                 THEN [@ EXCEPT !.pc = "returned",
                                !.response = query_failed_response(outcome.error)]
                 ELSE [@ EXCEPT !.pc = "handle", !.intent = outcome.value,
                                !.handler = handler_for(outcome.value)]]

\* the handler runs to its return
RunHandler(env) ==
    /\ api.call.pc = "handle"
    /\ UNCHANGED <<kgVars, genVars, resVars, lockVars>>
    /\ api' = [api EXCEPT !.call.pc = "returned",
                          !.call.response = handler_response(api.call.handler,
                                                api.call.user_input, api.llm_client, env)]

ApiNext ==
    \/ \E user_input \in UserInputs : process_query(user_input)
    \/ \E outcome \in IntentOutcomes : RecognizeIntent(outcome)
    \/ \E entities \in EntityOutcomes, relations \in RelationOutcomes,
          kg \in KGOutcomes, llm \in LLMOutcomes, llm_except \in LLMOutcomes :
          RunHandler(Env(entities, relations, kg, llm, llm_except))

-----------------------------------------------------------------------------
(* KnowledgeGraphQuery under concurrent requests: each thread runs          *)
(* _execute_query_with_cache; `with self.cache_lock` is an acquire step and *)
(* the release at the end of the block.  query_cache, now and storeQueries  *)
(* are the ones of the store client.                                        *)

Threads == {"t1", "t2"}

\* the cache keys the threads ask for
LockKeys == {<<"k", "1">>, <<"k", "2">>}

\* what graph.run(query).data() may give
LockRows == {<<RowA>>, <<RowA, RowB>>}

NoWork == [pc |-> "idle", cache_key |-> <<>>, missed |-> FALSE, queried |-> FALSE,
           result |-> <<>>, held |-> TRUE, swept |-> FALSE, sweepAt |-> 0]

can_acquire_unguarded(lock, t) == TRUE

\* threading.RLock: free, or held by the thread itself
can_acquire(lock, t) == lock \in {"free", t}

\* the keys _cache_result deletes
expired_keys(cache, current_time) ==
    {k \in DOMAIN cache : current_time - cache[k].timestamp >= cache_ttl}

\* the sweep of _cache_result, after its insert
cache_sweep(cache, current_time) ==
    [k \in DOMAIN cache \ expired_keys(cache, current_time) |-> cache[k]]

LockInit ==
    /\ workers = [t \in Threads |-> NoWork]
    /\ cache_lock = "free"

\* a thread enters _execute_query_with_cache(query, cache_key)
execute_query_with_cache(t, cache_key) ==
    /\ workers[t].pc \in {"idle", "returned"}
    /\ calls < MaxCalls
    /\ calls' = calls + 1
    /\ workers' = [workers EXCEPT ![t] = [NoWork EXCEPT !.pc = "get_acquire",
                                                       !.cache_key = cache_key]]
    /\ UNCHANGED <<query_cache, now, ticks, call, storeQueries, lastQuery, cache_lock>>
    /\ UNCHANGED <<genVars, resVars, apiVars>>

\* _get_cached_result: with self.cache_lock
AcquireForLookup(t) ==
    /\ workers[t].pc = "get_acquire"
    /\ can_acquire(cache_lock, t)
    /\ cache_lock' = t
    /\ workers' = [workers EXCEPT ![t].pc = "get_locked"]
    /\ UNCHANGED <<kgVars, genVars, resVars, apiVars>>

\* _get_cached_result: the lookup, the delete of an expired entry, and the
\* release; a hit returns the cached result
LookupLocked(t) ==
    /\ workers[t].pc = "get_locked"
    /\ LET got == get_cached_result(query_cache, workers[t].cache_key, now)
       IN  /\ query_cache' = got.cache
           /\ workers' = [workers EXCEPT ![t] =
                            [@ EXCEPT !.pc = IF got.is_none THEN "run" ELSE "returned",
                                      !.missed = got.is_none,
                                      !.result = got.value,
                                      !.held = @ /\ cache_lock = t]]
    /\ cache_lock' = IF cache_lock = t THEN "free" ELSE cache_lock
    /\ UNCHANGED <<now, ticks, call, calls, storeQueries, lastQuery>>
    /\ UNCHANGED <<genVars, resVars, apiVars>>

\* self.graph.run(query, **params).data() returns, outside the lock
GraphRun(t, rows) ==
    /\ workers[t].pc = "run"
    /\ storeQueries' = storeQueries + 1
    /\ workers' = [workers EXCEPT ![t] = [@ EXCEPT !.pc = "put_acquire",
                                                   !.queried = TRUE, !.result = rows]]
    /\ UNCHANGED <<query_cache, now, ticks, call, calls, lastQuery, cache_lock>>
    /\ UNCHANGED <<genVars, resVars, apiVars>>

\* graph.run raises: the except clause returns []
GraphRunRaises(t) ==
    /\ workers[t].pc = "run"
    /\ storeQueries' = storeQueries + 1
    /\ workers' = [workers EXCEPT ![t] = [@ EXCEPT !.pc = execute_query_except.pc,
                                                   !.queried = TRUE,
                                                   !.result = execute_query_except.rows]]
    /\ UNCHANGED <<query_cache, now, ticks, call, calls, lastQuery, cache_lock>>
    /\ UNCHANGED <<genVars, resVars, apiVars>>

\* _cache_result: with self.cache_lock
AcquireForInsert(t) ==
    /\ workers[t].pc = "put_acquire"
    /\ can_acquire(cache_lock, t)
    /\ cache_lock' = t
    /\ workers' = [workers EXCEPT ![t].pc = "put_locked"]
    /\ UNCHANGED <<kgVars, genVars, resVars, apiVars>>

\* _cache_result: self.query_cache[cache_key] = (result, time.time())
InsertLocked(t) ==
    /\ workers[t].pc = "put_locked"
    /\ query_cache' = cache_insert(query_cache, workers[t].cache_key,
                                   workers[t].result, now)
    /\ workers' = [workers EXCEPT ![t] = [@ EXCEPT !.pc = "inserted",
                                                   !.held = @ /\ cache_lock = t]]
    /\ UNCHANGED <<now, ticks, call, calls, storeQueries, lastQuery, cache_lock>>
    /\ UNCHANGED <<genVars, resVars, apiVars>>

\* _cache_result: current_time = time.time(), the expired keys are deleted,
\* and the lock is released; the result is returned
SweepLocked(t) ==
    /\ workers[t].pc = "inserted"
    /\ query_cache' = cache_sweep(query_cache, now)
    /\ workers' = [workers EXCEPT ![t] = [@ EXCEPT !.pc = "returned",
                                                   !.swept = TRUE, !.sweepAt = now,
                                                   !.held = @ /\ cache_lock = t]]
    /\ cache_lock' = IF cache_lock = t THEN "free" ELSE cache_lock
    /\ UNCHANGED <<now, ticks, call, calls, storeQueries, lastQuery>>
    /\ UNCHANGED <<genVars, resVars, apiVars>>

\* time passes
LockTick ==
    /\ ticks < MaxTicks
    /\ ticks' = ticks + 1
    /\ now' = now + (cache_ttl \div 2)
    /\ UNCHANGED <<query_cache, call, calls, storeQueries, lastQuery>>
    /\ UNCHANGED <<genVars, resVars, apiVars, lockVars>>

LockNext ==
    \/ \E t \in Threads, cache_key \in LockKeys : execute_query_with_cache(t, cache_key)
    \/ \E t \in Threads : AcquireForLookup(t)
    \/ \E t \in Threads : LookupLocked(t)
    \/ \E t \in Threads, rows \in LockRows : GraphRun(t, rows)
    \/ \E t \in Threads : GraphRunRaises(t)
    \/ \E t \in Threads : AcquireForInsert(t)
    \/ \E t \in Threads : InsertLocked(t)
    \/ \E t \in Threads : SweepLocked(t)
    \/ LockTick

-----------------------------------------------------------------------------
(* Specifications: one part of the program runs, the others are idle *)

LockIdle == workers = <<>> /\ cache_lock = "free"

InitLock == LockInit /\ KGInit /\ GenIdle /\ ResIdle /\ ApiIdle

InitExtract == ExtractInit /\ KGIdle /\ GenIdle /\ ApiIdle /\ LockIdle

InitKG == KGInit /\ GenIdle /\ ResIdle /\ ApiIdle /\ LockIdle

InitGen == GenInit /\ KGIdle /\ ResIdle /\ ApiIdle /\ LockIdle

InitRes == ResInit /\ KGIdle /\ GenIdle /\ ApiIdle /\ LockIdle

InitAPI == ApiInit /\ KGIdle /\ GenIdle /\ ResIdle /\ LockIdle

SpecKG == InitKG /\ [][KGNext]_vars

SpecInput == InitKG /\ [][InputNext]_vars

SpecGen == InitGen /\ [][GenNext]_vars

SpecRes == InitRes /\ [][ResNext]_vars

SpecRerun == InitRes /\ [][RerunNext]_vars

SpecExtract == InitExtract /\ [][ExtractNext]_vars

SpecAPI == InitAPI /\ [][ApiNext]_vars

SpecBuild == InitGen /\ [][BuildNext]_vars

SpecLock == InitLock /\ [][LockNext]_vars

-----------------------------------------------------------------------------
(* Claims about the knowledge-store client *)

Returned == call.pc = "returned" /\ call.op # "none"

\* C2: when find_entity_relations(X, n) got its data from the store and an
\* identical call follows, the second call returns the first one's result without
\* a store query while the entry is younger than the TTL, and it issues a new store
\* query once the TTL has elapsed.
C2_RepeatServedFromCache ==
    (Returned /\ call.op = "find_entity_relations" /\ call.prior.any /\ call.prior.ok) =>
        IF call.lookupAt - call.prior.at < cache_ttl
        THEN call.result = call.prior.result /\ call.storeRuns = 0
        ELSE call.storeRuns = 1

C2_Witness ==
    /\ Returned /\ call.op = "find_entity_relations"
    /\ call.prior.any /\ call.prior.ok
    /\ call.lookupAt > call.prior.at /\ call.lookupAt - call.prior.at < cache_ttl
    /\ call.storeRuns = 0 /\ call.result # <<>>

\* C3: a cache lookup never hands out an entry whose age is at least the TTL (an
\* age of exactly the TTL included); such an entry is removed by the lookup, which
\* reports a miss.
C3_NoStaleEntryReturned ==
    (call.found /\ call.lookupAt - call.foundAt >= cache_ttl) =>
        /\ ~call.hit
        /\ call.pc = "run" => call.cache_key \notin DOMAIN query_cache

C3_Witness ==
    /\ call.pc = "run" /\ call.found
    /\ call.lookupAt - call.foundAt = cache_ttl

\* C6: on a cache miss whose store query succeeds, the caller gets the queried
\* data whether or not storing it in the cache succeeds.
C6_DataReturnedDespiteCacheFailure ==
    (Returned /\ call.storeOk) => call.result = format_result(call.rows)

\* the characters the claim allows in a sanitized name
ClaimChars == WordChars \cup CJKChars \cup SpaceChars \cup {"-", "_"}

CleanName(s) ==
    /\ \A i \in 1..Len(s) : s[i] \in ClaimChars /\ s[i] \notin ControlChars
    /\ Len(s) <= MAX_ENTITY_LENGTH

RawStrings == Range(call.entities) \cup {call.relation}

\* C4: every string _sanitize_entity_name returns holds only word characters, CJK
\* ideographs, whitespace, hyphen and underscore and is at most MAX_ENTITY_LENGTH
\* long, and every entity and relation string in a query or a cache key is such a
\* sanitized input string.
C4_OnlySanitizedStringsUsed ==
    /\ \A s \in Range(call.validated) \cup {call.sanitized_relation} : CleanName(s)
    /\ \A s \in Range(call.query.entities) \cup {call.query.relation}
                \cup Range(call.key_strings) :
          /\ CleanName(s)
          /\ s = <<>> \/ \E raw \in RawStrings : s = sanitize_entity_name(raw)

C4_Witness ==
    /\ call.pc = "lookup"
    /\ LongName \in Range(call.entities)
    /\ \E s \in Range(call.query.entities) : Len(s) = MAX_ENTITY_LENGTH
    /\ call.relation # <<>> /\ call.query.relation # call.relation

ValidNames(entities) ==
    {i \in 1..Len(entities) : sanitize_entity_name(entities[i]) # <<>>}

\* the inputs the claim calls empty or invalid
InvalidInput ==
    CASE call.op = "find_entity_relations" -> ValidNames(call.entities) = {}
      [] call.op = "find_relation_by_entities" -> Cardinality(ValidNames(call.entities)) < 2
      [] call.op = "find_entities_by_relation" ->
            ValidNames(call.entities) = {} \/ sanitize_entity_name(call.relation) = <<>>
      [] OTHER -> FALSE

\* C5: a query operation never ends by raising; on empty or invalid input it
\* returns the empty list without a store query, and when the store query raises
\* it returns the empty list after that one attempt.
C5_EmptyListOnBadInputOrStoreError ==
    /\ call.pc # "raised"
    /\ call.storeRuns <= 1
    /\ (Returned /\ InvalidInput) =>
          call.result = <<>> /\ call.storeRuns = 0 /\ storeQueries = 0
    /\ (Returned /\ call.storeRaised) =>
          call.result = <<>> /\ call.storeRuns = 1

C5_Witness ==
    /\ Returned /\ InvalidInput
    /\ call.op = "find_entities_by_relation"
    /\ ValidNames(call.entities) # {} /\ call.relation # <<>>

-----------------------------------------------------------------------------
(* Claims about the context builder and the generator *)

\* C1: if the backend call does not complete within the timeout, the caller is
\* unblocked at the deadline with the sentinel response: a caller that is still
\* inside _safe_llm has not passed the deadline, and a request that timed out
\* carries the sentinel.
C1_CallerUnblockedAtDeadline ==
    /\ gen.pc \in {"waiting", "shutdown"} => clock <= gen.deadline
    /\ gen.outcome = "timedout" => gen.resp = SentinelResponse

\* C7: a context returned by build_context has at most relation_limit
\* relations, at most 6 attribute keys (each key once), and every attribute
\* value has length at most trunc_len.
C7_ContextBounded ==
    gen.built =>
        /\ Len(gen.ctx.relations) <= builder.relation_limit
        /\ Len(gen.ctx.attributes) <= 6
        /\ \A i, j \in 1..Len(gen.ctx.attributes) :
              gen.ctx.attributes[i][1] = gen.ctx.attributes[j][1] => i = j
        /\ \A i \in 1..Len(gen.ctx.attributes) :
              Len(gen.ctx.attributes[i][2]) <= builder.trunc_len

\* C7 witness: a context was built from more facts than the limit admits, the
\* limit is reached, and an attribute value was cut to trunc_len.
C7_Witness ==
    /\ gen.built
    /\ builder.relation_limit > 0
    /\ Len(gen.rels) > builder.relation_limit
    /\ Len(gen.ctx.relations) = builder.relation_limit
    /\ \E i \in 1..Len(gen.ctx.attributes) :
          Len(gen.ctx.attributes[i][2]) = builder.trunc_len

\* the text of one entry of the evidence trail of ctx; entry 0 is the header
TrailEntry(ctx, i) ==
    LET na == Len(ctx.attributes)
    IN  IF i = 0 THEN <<"evidence:">>
        ELSE IF i <= na
        THEN LET key == ctx.attributes[i][1]
                 value == ctx.attributes[i][2]
             IN  <<"attr-", key, ":">> \o SubSeq(value, 1, Min(Len(value), 100))
        ELSE LET r == ctx.relations[i - na]
             IN  <<"rel">> \o StrInt(i - na) \o <<":">>
                     \o r.entity1 \o <<" ">> \o r.relation \o <<" ">> \o r.entity2

\* entries 0..n of the trail, each on a line of its own
RECURSIVE TrailUpTo(_, _)
TrailUpTo(ctx, n) ==
    IF n = 0 THEN TrailEntry(ctx, 0)
    ELSE TrailUpTo(ctx, n - 1) \o <<"\n">> \o TrailEntry(ctx, n)

ExpectedTrail(ctx) == TrailUpTo(ctx, Len(ctx.attributes) + Len(ctx.relations))

Completed == gen.pc = "done" /\ gen.outcome = "completed"

Failed == gen.pc = "done" /\ gen.outcome \in {"timedout", "errored"}

C10_FailedRequestReturnsNothing == Failed => gen.output = <<>>

\* the state of the request in the terms of the per-request state machine
Phase(g) ==
    IF g.pc \in {"idle", "build"} THEN "Idle"
    ELSE IF g.pc = "raised" THEN "Raised"
    ELSE IF g.pc = "built" THEN "ContextBuilt"
    ELSE IF g.outcome = "none" THEN "BackendInvoked"
    ELSE IF g.outcome = "completed" THEN "Completed"
    ELSE IF g.outcome = "timedout" THEN "TimedOut"
    ELSE "Errored"

PhaseSteps ==
    {<<"Idle", "ContextBuilt">>, <<"Idle", "Raised">>,
     <<"ContextBuilt", "BackendInvoked">>,
     <<"BackendInvoked", "Completed">>, <<"BackendInvoked", "TimedOut">>,
     <<"BackendInvoked", "Errored">>}

-----------------------------------------------------------------------------
(* Claims about the resolver *)

KnownSpan(it) == it.start >= 0 /\ it.end >= 0

\* the character positions of the range [start, end)
Positions(it) == {x \in it.start..(it.end - 1) : TRUE}

\* the candidate a returned name stands for
KeptFor(name) == CHOOSE it \in Range(post.items) : it.text = name

\* C8: the candidates kept by _postprocess_entities that have start >= 0 and
\* end >= 0 have pairwise disjoint [start, end) ranges: every returned name is
\* the text of one candidate, and no two returned names with known spans share
\* a character position.
C8_KeptSpansDisjoint ==
    post.pc = "returned" =>
        /\ \A i \in 1..Len(post.result) :
              \E it \in Range(post.keep) : it.text = post.result[i]
        /\ \A it \in Range(post.keep) : it.text \in Range(post.result)
        /\ \A i, j \in 1..Len(post.result) :
              LET a == KeptFor(post.result[i])
                  b == KeptFor(post.result[j])
              IN  i # j /\ KnownSpan(a) /\ KnownSpan(b)
                      => Positions(a) \cap Positions(b) = {}

\* C8 witness: two names with known spans are returned, and a candidate with a
\* known span that shares a position with one of them was left out.
C8_Witness ==
    /\ post.pc = "returned"
    /\ \E i, j \in 1..Len(post.result) :
          /\ i # j
          /\ KnownSpan(KeptFor(post.result[i]))
          /\ KnownSpan(KeptFor(post.result[j]))
    /\ \E it \in Range(post.items) :
          /\ KnownSpan(it)
          /\ it.text \notin Range(post.result)
          /\ \E i \in 1..Len(post.result) :
                /\ KnownSpan(KeptFor(post.result[i]))
                /\ Positions(it) \cap Positions(KeptFor(post.result[i])) # {}

\* C13: running _postprocess_entities twice on the same utterance and the same
\* candidate list, with the knowledge base, the embedder and the store
\* unchanged, returns the same ordered list of names.
C13_SameListTwice ==
    post.pc = "returned" /\ post.run = 2 => post.result = post.prev.result

\* the ids of the knowledge base that have a synonym in the text, in its order
KeywordMatch(text) ==
    LET ids == {i \in 1..Len(EntitiesKB) :
                   \E syn \in Range(EntitiesKB[i][2]) : Contains(text, syn)}
        nth(k) == CHOOSE i \in ids : Cardinality({j \in ids : j < i}) = k - 1
    IN  [k \in 1..Cardinality(ids) |-> EntitiesKB[nth(k)][1]]

\* C14: extract_entities never raises; it returns the keyword match of the
\* utterance when the tagger is unavailable or raises, when post-processing
\* raises, or when post-processing returns an empty list, and else the
\* non-empty post-processed list.
C14_FallbackToKeywordMatch ==
    /\ post.ext \in {"none", "entered", "post", "returned"}
    /\ post.ext = "post" /\ post.pc \in {"returned", "raised"} => ENABLED ExtractReturns
    /\ post.ext = "returned" =>
          IF \/ post.tagger \in {"unavailable", "raised"}
             \/ post.pc = "raised"
             \/ post.result = <<>>
          THEN post.extracted = KeywordMatch(post.text)
          ELSE post.extracted = post.result /\ post.extracted # <<>>

\* C14 witness: the tagger returned candidates, post-processing returned an
\* empty list, and extract_entities returned a non-empty keyword match.
C14_Witness ==
    /\ post.ext = "returned"
    /\ post.tagger = "returned"
    /\ post.pc = "returned"
    /\ post.result = <<>>
    /\ post.extracted # <<>>

\* the ranges [start, end) of two candidates intersect
Overlapping(a, b) == a.end > b.start /\ a.start < b.end

\* the candidate stands alone: its span is unknown, or it intersects the known
\* span of no other candidate of the list
StandsAlone(it, items) ==
    KnownSpan(it) =>
        \A other \in Range(items) :
            other # it /\ KnownSpan(other) => ~Overlapping(it, other)

ResponseKeys == {"success", "message", "graphData"}

\* C16: whatever the input string is and whatever the intent recognizer, the
\* knowledge store and the LLM client do, process_query returns a dict with
\* the keys success, message and graphData and never raises: every call ends
\* in a return, and the returned dict has the three keys.
C16_AlwaysStructuredResponse ==
    /\ api.call.pc \in {"idle", "recognize", "handle", "returned"}
    /\ api.call.pc = "recognize" => \A outcome \in IntentOutcomes : ENABLED RecognizeIntent(outcome)
    /\ api.call.pc = "handle" =>
          \A entities \in EntityOutcomes, relations \in RelationOutcomes,
             kg \in KGOutcomes, llm \in LLMOutcomes, llm_except \in LLMOutcomes :
             ENABLED RunHandler(Env(entities, relations, kg, llm, llm_except))
    /\ api.call.pc = "returned" =>
          /\ ResponseKeys \subseteq DOMAIN api.call.response
          /\ api.call.response.success \in BOOLEAN

\* C16 witness: the recognizer raised without an LLM client, and the call
\* returned the failure response with the three keys.
C16_Witness ==
    /\ api.call.pc = "returned"
    /\ api.llm_client = "None"
    /\ api.call.intent = ""
    /\ api.call.user_input = <<"'", ";", "-", "-">>
    /\ ~api.call.response.success
    /\ api.call.response.message = QueryFailedPrefix \o <<"ValueError">>

\* the thread is inside _execute_query_with_cache
InCall(t) == workers[t].pc \notin {"idle", "returned"}

\* C17: two identical calls that run concurrently on a key absent from the
\* cache query the store once: no two threads that are inside the call for
\* the same key have both executed the store query.
C17_StoreQueriedOncePerMiss ==
    \A t1, t2 \in DOMAIN workers :
        /\ t1 # t2
        /\ InCall(t1) /\ InCall(t2)
        /\ workers[t1].cache_key = workers[t2].cache_key
        => ~(workers[t1].queried /\ workers[t2].queried)

\* the positions at which a thread reads or writes the cache
LockedPositions == {"get_locked", "put_locked", "inserted"}

\* C18: every read, insert and delete of the query cache happens while the
\* thread holds the cache lock; between the insert and the sweep of
\* _cache_result the lock stays with the inserting thread, so that no other
\* thread is at a position that touches the cache; and when _cache_result has
\* released the lock, no entry with age >= ttl as of the sweep time remains.
C18_CacheAccessUnderLock ==
    \A t \in DOMAIN workers :
        /\ workers[t].held
        /\ workers[t].pc \in LockedPositions =>
              /\ cache_lock = t
              /\ \A other \in DOMAIN workers \ {t} :
                    workers[other].pc \notin LockedPositions
        /\ workers[t].pc = "returned" /\ workers[t].swept =>
              \A k \in DOMAIN query_cache :
                  workers[t].sweepAt - query_cache[k].timestamp < cache_ttl

\* C18 witness: a thread stands between its insert and its sweep while the
\* other thread waits for the lock, and an entry of the cache has expired.
C18_Witness ==
    \E t, other \in DOMAIN workers :
        /\ workers[t].pc = "inserted"
        /\ workers[other].pc \in {"get_acquire", "put_acquire"}
        /\ \E k \in DOMAIN query_cache : now - query_cache[k].timestamp >= cache_ttl

\* the names of the list that are in the set, in the order of the list
Among(names, group) == SelectSeq(names, LAMBDA n : n \in group)

\* the names for which the store has at least one relation
HasRelation(n) == n \in KGNames

\* C19: with a knowledge-store lookup, the returned order has every name with
\* a relation in the store ahead of every name without one, and inside each
\* of the two groups the names are in the order the scoring gave them.
C19_StableKGPass ==
    post.pc = "returned" /\ recognizer.kg_query # "None" =>
        LET known == {n \in Range(post.result) : HasRelation(n)}
            unknown == Range(post.result) \ known
        IN  /\ \A i, j \in 1..Len(post.result) :
                  post.result[i] \in unknown /\ post.result[j] \in known => j < i
            /\ Among(post.result, known) = Among(post.ranked, known)
            /\ Among(post.result, unknown) = Among(post.ranked, unknown)

\* the product lengthWeight x labelWeight x domainBonus of a candidate, squared
WeightProduct(it) ==
    (IF Len(it.text) > 1 THEN Len(it.text) ELSE 1)
        * (IF it.label = "NAMED_ENTITY" THEN 144 ELSE 100)
        * (IF it.text \in BonusTexts THEN 225 ELSE 100)

\* C20: without an embedder _postprocess_entities raises no error and orders
\* the kept candidates by lengthWeight x labelWeight x domainBonus: before the
\* knowledge-existence pass, of two kept candidates the one with the larger
\* product comes first.
C20_RankedByWeightsWithoutEmbedder ==
    post.pc \in {"order", "returned"} /\ recognizer.embed = "none" =>
        \A i, j \in 1..Len(post.ranked) :
            WeightProduct(KeptFor(post.ranked[i])) > WeightProduct(KeptFor(post.ranked[j]))
                => i < j

\* C21: build_context calls the store exactly when no fact list was supplied;
\* with a supplied list, the empty list included, it makes no store call and
\* builds the context from that list only.
C21_StoreCalledOnlyWithoutList ==
    gen.op = "build_context" /\ gen.pc \in {"built", "raised"} =>
        /\ gen.kg_given => gen.storeCalls = 0 /\ gen.rels = gen.kg_result
        /\ ~gen.kg_given => gen.storeCalls = 1

\* a non-empty string
NonEmptyStr(v) == v # None /\ v # <<>>

\* C22: every relation of the context has an entity1, a relation and an
\* entity2 that are non-empty strings.
C22_RelationsHaveNonEmptyFields ==
    gen.op = "build_context" /\ gen.pc = "built" =>
        \A i \in 1..Len(gen.ctx.relations) :
            /\ NonEmptyStr(gen.ctx.relations[i].entity1)
            /\ NonEmptyStr(gen.ctx.relations[i].relation)
            /\ NonEmptyStr(gen.ctx.relations[i].entity2)

\* C27: build_context returns a context without raising for every topic and
\* every fact list, a list with an item that is no record included.
C27_BuildContextNeverRaises == gen.op = "build_context" => gen.pc # "raised"

\* the score of a fact or of a returned relation for the topic: 3 for an
\* entity1 equal to the topic, else 2 for one that holds it; 2 for an entity2
\* equal to the topic, else 1 for one that holds it; 1 for a relation name
\* with an informative keyword
HasKeyword(r) ==
    \E i \in 1..(Len(r) - 1) :
        <<r[i], r[i + 1]>> \in {<<"B", "H">>, <<"S", "U">>, <<"L", "X">>, <<"D", "I">>,
                                <<"Q", "G">>, <<"C", "Y">>, <<"K", "Y">>, <<"W", "N">>}

Holds(e, topic) ==
    \E i \in 0..(Len(e) - Len(topic)) :
        \A j \in 1..Len(topic) : e[i + j] = topic[j]

ClaimedScore(topic, f) ==
    (IF f.entity1 = None THEN 0 ELSE IF f.entity1 = topic THEN 3
     ELSE IF Holds(f.entity1, topic) THEN 2 ELSE 0)
  + (IF f.entity2 = None THEN 0 ELSE IF f.entity2 = topic THEN 2
     ELSE IF Holds(f.entity2, topic) THEN 1 ELSE 0)
  + (IF f.relation = None THEN 0 ELSE IF HasKeyword(f.relation) THEN 1 ELSE 0)

\* the facts of the list that can be returned: records with three strings
Eligible(rels) ==
    SelectSeq(rels, LAMBDA f : f.is_dict /\ f.entity1 # None /\ f.entity2 # None
                                         /\ f.relation # None)

\* how many elements of the list score at least s
AtLeast(topic, list, s) == Cardinality({i \in 1..Len(list) : ClaimedScore(topic, list[i]) >= s})

\* C23: the facts are scored as stated, the returned relations are in
\* non-increasing score order, they are the triples of eligible facts, and no
\* eligible fact left out scores higher than a returned one: for every score
\* s, the returned relations hold as many facts scoring at least s as the
\* limit and the eligible facts allow.
C23_TopScoredInOrder ==
    gen.op = "build_context" /\ gen.pc = "built" =>
        LET topic == gen.ctx.topic
            out == gen.ctx.relations
            eligible == Eligible(gen.rels)
            k == Min(builder.relation_limit, Len(eligible))
        IN  /\ Len(out) = k
            /\ \A i \in 1..Len(gen.rels) :
                  gen.rels[i].is_dict =>
                      score_relation(topic, gen.rels[i]) = ClaimedScore(topic, gen.rels[i])
            /\ \A i \in 1..Len(out) :
                  \E j \in 1..Len(eligible) :
                      /\ out[i].entity1 = eligible[j].entity1
                      /\ out[i].relation = eligible[j].relation
                      /\ out[i].entity2 = eligible[j].entity2
            /\ \A i, j \in 1..Len(out) :
                  i < j => ClaimedScore(topic, out[i]) >= ClaimedScore(topic, out[j])
            /\ \A s \in 0..6 :
                  AtLeast(topic, out, s) = Min(k, AtLeast(topic, eligible, s))

\* C23 witness: the limit cut off an eligible fact, the returned relations
\* have different scores, and a fact standing earlier in the list was returned
\* after a later one.
C23_Witness ==
    /\ gen.op = "build_context" /\ gen.pc = "built"
    /\ Len(gen.ctx.relations) = 2
    /\ Len(Eligible(gen.rels)) > 2
    /\ ClaimedScore(gen.ctx.topic, gen.ctx.relations[1])
          > ClaimedScore(gen.ctx.topic, gen.ctx.relations[2])
    /\ gen.ctx.relations[1].entity1 # Eligible(gen.rels)[1].entity1

\* the attribute map of the side on which the fact has the topic
TopicSide(topic, f) ==
    IF f.entity1 = topic THEN f.entity1_attributes
    ELSE IF f.entity2 = topic THEN f.entity2_attributes
    ELSE <<>>

\* the value of the field in the map is a string that is not blank
Filled(attrs, field) ==
    \E i \in 1..Len(attrs) :
        attrs[i][1] = field /\ attrs[i][2] # None /\ Strip(attrs[i][2]) # <<>>

\* the facts, by position, that give the field a value
Givers(topic, rels, field) ==
    {i \in 1..Len(rels) : Filled(TopicSide(topic, rels[i]), field)}

\* C24: for each of the six fields the merged value is the trimmed and
\* truncated value of the first fact, in list order, that has the topic as
\* entity1 or entity2 and a non-empty string for the field on that side; a
\* field no such fact fills is absent, and no other key is present.
C24_FirstWriterWins ==
    gen.op = "build_context" /\ gen.pc = "built" =>
        LET merged == gen.ctx.attributes
            topic == gen.ctx.topic
            fields == {"type", "description", "properties",
                       "time_complexity", "space_complexity", "common_operations"}
        IN  /\ DictKeys(merged) \subseteq fields
            /\ \A field \in fields :
                  LET givers == Givers(topic, gen.rels, field)
                  IN  IF givers = {} THEN field \notin DictKeys(merged)
                      ELSE LET first == CHOOSE i \in givers : \A j \in givers : i <= j
                               v == Strip(DictGet(TopicSide(topic, gen.rels[first]), field))
                           IN  /\ field \in DictKeys(merged)
                               /\ DictGet(merged, field)
                                     = SubSeq(v, 1, Min(Len(v), builder.trunc_len))

\* C24 witness: two facts give the field type different values, the first on
\* the side of entity1 and the second on the side of entity2, the first one
\* was kept, and a blank value of another field was passed over.
C24_Witness ==
    /\ gen.op = "build_context" /\ gen.pc = "built"
    /\ Cardinality(Givers(gen.ctx.topic, gen.rels, "type")) = 2
    /\ DictGet(gen.ctx.attributes, "type") = <<"t", "\n", "t", "t">>
    /\ DictGet(gen.ctx.attributes, "properties") = <<"p">>
    /\ \E i \in 1..Len(gen.rels) :
          /\ gen.rels[i].entity2 = gen.ctx.topic
          /\ DictGet(gen.rels[i].entity2_attributes, "properties") = <<" ", " ">>

\* the span a literal search of the utterance gives the text
SearchedSpan(text, t) ==
    LET at == {i \in 0..(Len(text) - Len(t)) : \A j \in 1..Len(t) : text[i + j] = t[j]}
    IN  IF at = {} THEN <<0 - 1, 0 - 1>>
        ELSE <<CHOOSE i \in at : \A k \in at : i <= k,
               (CHOOSE i \in at : \A k \in at : i <= k) + Len(t)>>

\* C25: when the tagger and the augmentation pass both give a text and their
\* spans disagree, the candidate list holds one candidate for the text, and
\* it is the one of the augmentation pass, with the span of the literal search.
C25_SynonymInstancePreferred ==
    post.pc \in {"select", "score", "order", "returned"} =>
        \A e \in Range(post.entities_raw) :
            /\ e.is_dict
            /\ e.text \in Range(post.order)
            /\ <<e.start, e.end>> # SearchedSpan(post.text, e.text)
            /\ Len(Strip(e.text)) > 1
            => /\ Cardinality({i \in 1..Len(post.items) : post.items[i].text = e.text}) = 1
               /\ \A it \in Range(post.items) :
                     it.text = e.text =>
                         <<it.start, it.end>> = SearchedSpan(post.text, e.text)

\* C26: every name _postprocess_entities returns is distinct from the others,
\* is longer than one character, and is no stopword.
C26_NamesDistinctLongNoStopword ==
    post.pc = "returned" =>
        /\ \A i, j \in 1..Len(post.result) : post.result[i] = post.result[j] => i = j
        /\ \A i \in 1..Len(post.result) :
              /\ Len(post.result[i]) > 1
              /\ post.result[i] \notin {<<"pai", "xu">>, <<"shu">>, <<"lu", "jing">>,
                                        <<"tu">>, <<"suan", "fa">>}

\* C26 witness: a call returned names although the tagger gave a stopword and
\* the augmentation pass gave a text of one character.
C26_Witness ==
    /\ post.pc = "returned"
    /\ post.result # <<>>
    /\ \E e \in Range(post.entities_raw) : e.is_dict /\ e.text = <<"pai", "xu">>
    /\ \E t \in Range(post.order) : Len(t) = 1

\* C28: a call whose store query returned (zero records included) and whose
\* cache write completed leaves an entry with the returned records; a call
\* whose store query raised leaves no entry for its key; a call that finds an
\* entry younger than the TTL returns it without a store query, and a call that
\* finds no entry queries the store.
C28_EntryWrittenIffStoreReturned ==
    call.pc = "returned" /\ call.cache_key # <<>> =>
        /\ call.storeOk /\ call.cacheOutcome = "ok" =>
              /\ call.cache_key \in DOMAIN query_cache
              /\ query_cache[call.cache_key].result = call.rows
              /\ query_cache[call.cache_key].timestamp >= call.lookupAt
        /\ call.storeRaised => call.cache_key \notin DOMAIN query_cache
        /\ call.found /\ call.lookupAt - call.foundAt < cache_ttl =>
              call.hit /\ call.storeRuns = 0 /\ ~call.storeOk /\ ~call.storeRaised
        /\ ~call.found => ~call.hit /\ call.storeRuns = 1

\* C28 witness: with no time passed, the third identical call is served an
\* empty result from the cache, after one call whose store query raised and
\* one whose store query returned zero records.
C28_Witness ==
    /\ call.pc = "returned"
    /\ call.hit
    /\ call.rows = <<>>
    /\ call.storeRuns = 0
    /\ calls = 3
    /\ storeQueries = 2
    /\ ticks = 0
    /\ lastQuery[call.cache_key].ok

\* C29: every label of the rule-based path is a key of intent_to_kg_method,
\* and a query the rules take for a single-entity query is dispatched to
\* _handle_find_single_entity.
C29_RuleLabelsDispatched ==
    /\ api.call.pc \in {"handle", "returned"}
    /\ api.call.intent = rule_based_intent_recognition(api.call.user_input)
    => /\ api.call.intent \in rule_intents
       /\ api.call.intent \in DOMAIN intent_to_kg_method
       /\ api.call.intent \notin {"find_relation_by_two_entities",
                                  "find_entity_by_relation_and_entity", "other"}
          => api.call.handler = "_handle_find_single_entity"

\* C30: in the graph data of a response, every link's source and target is
\* a node of the returned node list.
C30_LinksJoinReturnedNodes ==
    api.call.pc = "returned" /\ api.call.response.graphData # <<>> =>
        \A link \in Range(api.call.response.graphData.links) :
            /\ link[1] \in Range(api.call.response.graphData.nodes)
            /\ link[2] \in Range(api.call.response.graphData.nodes)

====
